---- MODULE Spec2Model ----
(***************************************************************************)
(* Klondike solitaire rules engine (src/src/variant/klondike.rs) over the  *)
(* "common" card and game-state model (src/src/common/game_state.rs), and *)
(* the interaction layer on top of it (src/src/ui/component/game).         *)
(*                                                                         *)
(* A pile (Stack) is a sequence of cards, bottom first; the last element   *)
(* is the top card.                                                        *)
(***************************************************************************)
EXTENDS Integers, Sequences, FiniteSets, TLC

VARIABLES
    deck,   \* the 52-card deck the game was created from (face-down cards)
    game,   \* the current game state (Initial, Playing or Win)
    last,   \* the last rules-engine call: operation, arguments, input state, result
    steps,  \* number of rules-engine calls made on Playing states
    ui      \* the state of the interaction layer (UIState)

vars == <<deck, game, last, steps, ui>>

----------------------------------------------------------------------------
(* Bounds of the model *)

\* number of deck orderings a game may start from
NumDecks == 3
\* number of rules-engine calls explored after the deal
MaxSteps == 2
\* largest take_n passed to move_cards / auto_move_card
MaxTake == 2
\* largest ordinary n passed to draw_stock
MaxDraw == 2
\* longest run handed to valid_seq on its own
MaxRun == 3

\* the cards of a suit that an endgame starts with outside its foundation
MaxOut == 2

\* number of events that change the game explored after the deal, through the
\* interaction layer
MaxUISteps == 2

\* the most cards on a foundation handed to is_safe_to_move_to_foundation
MaxTop == 4

----------------------------------------------------------------------------
(* Cards: suits, colours, ranks *)

NUM_TABLEAU == 7

FrenchSuit_N == 4

NUM_FOUNDATIONS == FrenchSuit_N

Rank_N == 13

Card_N == FrenchSuit_N * Rank_N

DEAL_N == (NUM_TABLEAU * (NUM_TABLEAU + 1)) \div 2

\* FrenchSuit::VALUES
FrenchSuit_VALUES == <<"Clubs", "Spades", "Hearts", "Diamonds">>

color(s) == IF s \in {"Clubs", "Spades"} THEN "Black" ELSE "Red"

opposite(c) == IF c = "Black" THEN "Red" ELSE "Black"

\* Rank is an enum declared King, Queen, ..., Two, Ace; a rank is modelled by
\* its position in that declaration, which is also its derived ordering.
King == 0

Two == 11

Ace == 12

Ranks == 0 .. (Rank_N - 1)

\* Option<Rank>: the empty sequence is None, <<r>> is Some(r)
None == <<>>

Some(x) == <<x>>

\* Rank::next: the following rank in King -> Queen -> ... -> Ace order
next(r) == IF r = Ace THEN None ELSE Some(r + 1)

\* Rank::prev: the preceding rank in that order (towards King)
prev(r) == IF r = King THEN None ELSE Some(r - 1)

\* A card is modelled by one number: its from_index index (suit-major,
\* rank-minor), plus Card_N when it is face-up.
from_index(i) == i

suit(c) == FrenchSuit_VALUES[((c % Card_N) \div Rank_N) + 1]

rank(c) == (c % Card_N) % Rank_N

face_up(c) == c >= Card_N

set_face(c, up) == (c % Card_N) + (IF up THEN Card_N ELSE 0)

\* Card::new_deck: suit-major, rank-minor, every card face-down
new_deck == [i \in 1 .. Card_N |-> from_index(i - 1)]

Cards == 0 .. ((2 * Card_N) - 1)

\* the identity of a card (Eq on suit and rank), without its face
ident(c) == c % Card_N

----------------------------------------------------------------------------
(* Pile primitives *)

Reverse(s) == [i \in 1 .. Len(s) |-> s[Len(s) + 1 - i]]

\* take_n_slice: (remaining, taken); taken is the top n cards, bottom first
take_n_slice(cs, n) ==
    <<SubSeq(cs, 1, Len(cs) - n), SubSeq(cs, Len(cs) - n + 1, Len(cs))>>

\* take_n_vec_mut: Vec::split_off(len - n); <<what is left, what was split off>>
take_n_vec_mut(cs, n) ==
    <<SubSeq(cs, 1, Len(cs) - n), SubSeq(cs, Len(cs) - n + 1, Len(cs))>>

\* a take_one that takes the bottom card of the pile instead of the top
take_one_front(cs) == <<SubSeq(cs, 2, Len(cs)), cs[1]>>

\* take_one_vec_mut: Vec::pop; <<what is left, the popped top card>>
take_one_vec_mut(cs) == <<SubSeq(cs, 1, Len(cs) - 1), cs[Len(cs)]>>

\* a flip that turns the bottom card of the stack instead of its last card
face_up_first(cs) ==
    IF cs = <<>> THEN cs ELSE [cs EXCEPT ![1] = set_face(cs[1], TRUE)]

\* a flip that leaves the last card of the stack as it lies
face_as_is(cs) == cs

\* stack.last_mut().face_up = true, when there is a last card
face_up_last(cs) ==
    IF cs = <<>> THEN cs ELSE [cs EXCEPT ![Len(cs)] = set_face(cs[Len(cs)], TRUE)]

----------------------------------------------------------------------------
(* Pile references and game states *)

Tableau(n) == [kind |-> "Tableau", n |-> n]

Foundation(n) == [kind |-> "Foundation", n |-> n]

Stock == [kind |-> "Stock", n |-> 0]

Talon == [kind |-> "Talon", n |-> 0]

\* the pile references handed to the engine; Tableau(NUM_TABLEAU) names a pile
\* that does not exist
PileRefs ==
    {Tableau(n) : n \in 0 .. NUM_TABLEAU} \cup
    {Foundation(n) : n \in 0 .. (NUM_FOUNDATIONS - 1)} \cup {Stock, Talon}

EmptyPiles(n) == [i \in 1 .. n |-> <<>>]

\* InitialGameState::from(deck)
InitialGameState(d) ==
    [kind |-> "Initial", tableau |-> EmptyPiles(NUM_TABLEAU), stock |-> d]

PlayingGameState(tableau, foundations, stock, talon) ==
    [kind |-> "Playing", tableau |-> tableau, foundations |-> foundations,
     stock |-> stock, talon |-> talon]

WinGameState(foundations) == [kind |-> "Win", foundations |-> foundations]

\* GameState::get_stack for the three variants: Some(pile) or None
get_stack(state, p) ==
    CASE state.kind = "Initial" ->
            IF p.kind = "Tableau"
            THEN (IF p.n < NUM_TABLEAU THEN Some(state.tableau[p.n + 1]) ELSE None)
            ELSE IF p.kind = "Stock" THEN Some(state.stock) ELSE None
      [] state.kind = "Playing" ->
            IF p.kind = "Tableau"
            THEN (IF p.n < NUM_TABLEAU THEN Some(state.tableau[p.n + 1]) ELSE None)
            ELSE IF p.kind = "Foundation"
            THEN (IF p.n < NUM_FOUNDATIONS THEN Some(state.foundations[p.n + 1]) ELSE None)
            ELSE IF p.kind = "Stock" THEN Some(state.stock)
            ELSE Some(state.talon)
      [] OTHER ->
            IF p.kind = "Foundation"
            THEN (IF p.n < NUM_FOUNDATIONS THEN Some(state.foundations[p.n + 1]) ELSE None)
            ELSE None

\* *state.get_stack_mut(p).unwrap() = stack, on a Playing state
set_stack(state, p, stack) ==
    CASE p.kind = "Tableau" -> [state EXCEPT !.tableau[p.n + 1] = stack]
      [] p.kind = "Foundation" -> [state EXCEPT !.foundations[p.n + 1] = stack]
      [] p.kind = "Stock" -> [state EXCEPT !.stock = stack]
      [] OTHER -> [state EXCEPT !.talon = stack]

----------------------------------------------------------------------------
(* GameRules: the deal *)

\* floor of the square root, for the f64 sqrt of klondike.rs:54; the argument
\* is at most 1 + 8 * DEAL_N, where f64 arithmetic is exact on perfect squares
\* and never rounds the root of a non-square to an integer
sqrt_floor(y) == CHOOSE s \in 0 .. y : s * s <= y /\ (s + 1) * (s + 1) > y

\* is_new_row: card_triangle_root == card_triangle_root.trunc()
is_new_row(card_triangle_num) ==
    LET y == 1 + (8 * card_triangle_num)
    IN  sqrt_floor(y) * sqrt_floor(y) = y

\* card_triangle_root.trunc(), the root being (-1 + sqrt(1 + 8x)) / 2
card_root_trunc(card_triangle_num) ==
    (sqrt_floor(1 + (8 * card_triangle_num)) - 1) \div 2

\* a root rounded down where deal_one rounds it up
card_root_floor(card_triangle_num) == card_root_trunc(card_triangle_num)

\* card_triangle_root.ceil()
card_root_ceil(card_triangle_num) ==
    IF is_new_row(card_triangle_num)
    THEN card_root_trunc(card_triangle_num)
    ELSE card_root_trunc(card_triangle_num) + 1

\* a tableau index that deals full rows, without inverting the triangle
tableau_index_rows(drawn) == drawn % NUM_TABLEAU

\* the tableau index deal_one derives from the number of cards drawn so far
tableau_index(drawn) ==
    LET card_triangle_num == DEAL_N - drawn
        row_triangle_num ==
            IF is_new_row(card_triangle_num)
            THEN card_triangle_num
            ELSE ((card_root_trunc(card_triangle_num) + 1)
                    * (card_root_trunc(card_triangle_num) + 2)) \div 2
    IN  ((NUM_TABLEAU - card_root_ceil(card_triangle_num)) + row_triangle_num)
            - card_triangle_num

\* a deal that never turns a card
dealt_card_down(card, drawn) == card

\* the card deal_one pushes: turned face-up when it opens a new row
dealt_card(card, drawn) ==
    IF is_new_row(DEAL_N - drawn) THEN set_face(card, TRUE) ELSE card

\* GameRules::deal_one: the Initial state after one more card (DealResult::Dealing)
\* or the Playing state (DealResult::Complete)
deal_one(state) ==
    LET drawn == Card_N - Len(state.stock)
        popped == take_one_vec_mut(state.stock)
        stock == popped[1]
        card == dealt_card(popped[2], drawn)
        tableau == [state.tableau EXCEPT ![tableau_index(drawn) + 1] = Append(@, card)]
    IN  IF Card_N - Len(stock) >= DEAL_N
        THEN PlayingGameState(tableau, EmptyPiles(NUM_FOUNDATIONS), stock, <<>>)
        ELSE [kind |-> "Initial", tableau |-> tableau, stock |-> stock]

RECURSIVE deal_one_loop(_)
\* loop { match deal_one(state) { Dealing(s) => state = s, Complete(s) => return s } }
deal_one_loop(state) ==
    LET r == deal_one(state)
    IN  IF r.kind = "Playing" THEN r ELSE deal_one_loop(r)

RECURSIVE deal_all_loop(_, _, _)
\* the nested for loops of deal_all: for i in 0..NT { for j in i..NT { .. } flip }
deal_all_loop(state, i, j) ==
    IF i = NUM_TABLEAU THEN state
    ELSE IF j = NUM_TABLEAU
    THEN deal_all_loop(
            [state EXCEPT !.tableau[i + 1] = face_up_last(@)], i + 1, i + 1)
    ELSE LET popped == take_one_vec_mut(state.stock)
         IN  deal_all_loop(
                [state EXCEPT !.stock = popped[1],
                              !.tableau[j + 1] = Append(@, popped[2])],
                i, j + 1)

\* GameRules::deal_all
deal_all(state) ==
    IF Card_N - Len(state.stock) = 0
    THEN deal_all_loop(
            PlayingGameState(EmptyPiles(NUM_TABLEAU), EmptyPiles(NUM_FOUNDATIONS),
                             state.stock, <<>>),
            0, 0)
    ELSE deal_one_loop(state)

----------------------------------------------------------------------------
(* GameRules: drawing from the stock *)

Min(a, b) == IF a < b THEN a ELSE b

\* a draw_stock whose recycle copies the talon to the stock and forgets to
\* empty it
draw_stock_keep_talon(state, n) ==
    IF Len(state.stock) = 0
    THEN [state EXCEPT
            !.stock = Reverse([i \in 1 .. Len(state.talon) |->
                                    set_face(state.talon[i], FALSE)])]
    ELSE LET k == Min(n, Len(state.stock))
             split == take_n_vec_mut(state.stock, k)
             take == [i \in 1 .. Len(split[2]) |-> set_face(split[2][i], TRUE)]
         IN  [state EXCEPT !.stock = split[1], !.talon = @ \o take]

\* a draw_stock whose recycle turns the talon over without turning its cards
\* face-down
draw_stock_unturned(state, n) ==
    IF Len(state.stock) = 0
    THEN [state EXCEPT !.stock = Reverse(state.talon), !.talon = state.stock]
    ELSE LET k == Min(n, Len(state.stock))
             split == take_n_vec_mut(state.stock, k)
             take == [i \in 1 .. Len(split[2]) |-> set_face(split[2][i], TRUE)]
         IN  [state EXCEPT !.stock = split[1], !.talon = @ \o take]

\* GameRules::draw_stock; the result is always Ok(new_state)
draw_stock(state, n) ==
    IF Len(state.stock) = 0
    THEN [state EXCEPT
            !.stock = Reverse([i \in 1 .. Len(state.talon) |->
                                    set_face(state.talon[i], FALSE)]),
            !.talon = state.stock]
    ELSE LET k == Min(n, Len(state.stock))
             split == take_n_vec_mut(state.stock, k)
             take == [i \in 1 .. Len(split[2]) |-> set_face(split[2][i], TRUE)]
         IN  [state EXCEPT !.stock = split[1], !.talon = @ \o take]

----------------------------------------------------------------------------
(* GameRules: sequence validity *)

all_face_up(cs) == \A i \in 1 .. Len(cs) : face_up(cs[i])

\* a valid_seq that does not look at the face of the cards
valid_seq_any_face(p, cs) ==
    CASE p.kind = "Tableau" ->
            \A i \in 2 .. Len(cs) :
                /\ color(suit(cs[i])) # color(suit(cs[i - 1]))
                /\ next(rank(cs[i - 1])) = Some(rank(cs[i]))
      [] p.kind = "Foundation" ->
            \A i \in 2 .. Len(cs) :
                /\ suit(cs[i]) = suit(cs[i - 1])
                /\ prev(rank(cs[i - 1])) = Some(rank(cs[i]))
      [] p.kind = "Stock" -> FALSE
      [] OTHER -> TRUE

\* a valid_seq that lets a foundation mix the suits
valid_seq_any_suit(p, cs) ==
    IF ~all_face_up(cs) THEN FALSE
    ELSE CASE p.kind = "Tableau" ->
                \A i \in 2 .. Len(cs) :
                    /\ color(suit(cs[i])) # color(suit(cs[i - 1]))
                    /\ next(rank(cs[i - 1])) = Some(rank(cs[i]))
           [] p.kind = "Foundation" ->
                \A i \in 2 .. Len(cs) :
                    prev(rank(cs[i - 1])) = Some(rank(cs[i]))
           [] p.kind = "Stock" -> FALSE
           [] OTHER -> TRUE

\* GameRules::valid_seq, for a non-empty run cs given bottom first
valid_seq(p, cs) ==
    IF ~all_face_up(cs) THEN FALSE
    ELSE CASE p.kind = "Tableau" ->
                \A i \in 2 .. Len(cs) :
                    /\ color(suit(cs[i])) # color(suit(cs[i - 1]))
                    /\ next(rank(cs[i - 1])) = Some(rank(cs[i]))
           [] p.kind = "Foundation" ->
                \A i \in 2 .. Len(cs) :
                    /\ suit(cs[i]) = suit(cs[i - 1])
                    /\ prev(rank(cs[i - 1])) = Some(rank(cs[i]))
           [] p.kind = "Stock" -> FALSE
           [] OTHER -> TRUE

----------------------------------------------------------------------------
(* GameRules: moving cards *)

\* Result<MoveResult>: Ok(MoveResult::Playing | MoveResult::Win) carries the new
\* state; Err carries the error kind, field and reason
Ok(state) ==
    [ok |-> TRUE, kind |-> state.kind, field |-> "", reason |-> "", state |-> state]

InvalidInput(field, reason, state) ==
    [ok |-> FALSE, kind |-> "InvalidInput", field |-> field, reason |-> reason,
     state |-> state]

InvalidMove(reason, state) ==
    [ok |-> FALSE, kind |-> "InvalidMove", field |-> "", reason |-> reason,
     state |-> state]

\* a win check that is content with one complete foundation
move_result_any_full(new_state, dst) ==
    IF dst.kind = "Foundation"
    THEN IF \A f \in 1 .. NUM_FOUNDATIONS : Len(new_state.foundations[f]) < Rank_N
         THEN Ok(new_state)
         ELSE Ok(WinGameState(new_state.foundations))
    ELSE Ok(new_state)

\* the win check at the end of move_cards
move_result(new_state, dst) ==
    IF dst.kind = "Foundation"
    THEN IF \E f \in 1 .. NUM_FOUNDATIONS : Len(new_state.foundations[f]) < Rank_N
         THEN Ok(new_state)
         ELSE Ok(WinGameState(new_state.foundations))
    ELSE Ok(new_state)

\* a move_cards block that lets any card open an empty tableau pile
move_stacks_any_space(state, src, take_n, dst) ==
    IF get_stack(state, src) = None
    THEN InvalidInput("src", "pile does not exist", state)
    ELSE
    LET src_stack == get_stack(state, src)[1]
    IN  IF take_n > Len(src_stack)
        THEN InvalidInput("take_n", "not enough cards in src pile", state)
        ELSE
        LET rest == take_n_slice(src_stack, take_n)[1]
            take == take_n_slice(src_stack, take_n)[2]
            new_src_stack == face_up_last(rest)
        IN  IF ~valid_seq(src, take)
            THEN InvalidMove("src sequence is invalid", state)
            ELSE IF get_stack(state, dst) = None
            THEN InvalidInput("dst", "pile does not exist", state)
            ELSE
            LET dst_stack == get_stack(state, dst)[1]
                new_dst_stack == dst_stack \o take
                n == Len(new_dst_stack)
            IN  IF dst_stack = <<>> /\ dst.kind = "Foundation"
                        /\ rank(take[1]) # Ace
                THEN InvalidMove("dst sequence is invalid", state)
                ELSE IF dst_stack # <<>>
                        /\ ~valid_seq(dst, SubSeq(new_dst_stack, n - take_n,
                                                  (n - take_n) + 1))
                THEN InvalidMove("dst sequence is invalid", state)
                ELSE move_result(
                        set_stack(set_stack(state, src, new_src_stack),
                                  dst, new_dst_stack),
                        dst)

\* the block of move_cards that builds the new src and dst stacks
move_stacks(state, src, take_n, dst) ==
    IF get_stack(state, src) = None
    THEN InvalidInput("src", "pile does not exist", state)
    ELSE
    LET src_stack == get_stack(state, src)[1]
    IN  IF take_n > Len(src_stack)
        THEN InvalidInput("take_n", "not enough cards in src pile", state)
        ELSE
        LET rest == take_n_slice(src_stack, take_n)[1]
            take == take_n_slice(src_stack, take_n)[2]
            new_src_stack == face_up_last(rest)
        IN  IF ~valid_seq(src, take)
            THEN InvalidMove("src sequence is invalid", state)
            ELSE IF get_stack(state, dst) = None
            THEN InvalidInput("dst", "pile does not exist", state)
            ELSE
            LET dst_stack == get_stack(state, dst)[1]
                new_dst_stack == dst_stack \o take
                n == Len(new_dst_stack)
            IN  IF dst_stack = <<>> /\ dst.kind = "Tableau" /\ rank(take[1]) # King
                THEN InvalidMove("can only move a King to a space", state)
                ELSE IF dst_stack = <<>> /\ dst.kind = "Foundation"
                        /\ rank(take[1]) # Ace
                THEN InvalidMove("dst sequence is invalid", state)
                ELSE IF dst_stack # <<>>
                        /\ ~valid_seq(dst, SubSeq(new_dst_stack, n - take_n,
                                                  (n - take_n) + 1))
                THEN InvalidMove("dst sequence is invalid", state)
                ELSE move_result(
                        set_stack(set_stack(state, src, new_src_stack),
                                  dst, new_dst_stack),
                        dst)

\* an input validation that looks at src before it looks at take_n = 0
validate_input_src_first(state, src, take_n, dst) ==
    IF src.kind = "Stock"
    THEN InvalidInput("src", "cannot move cards from stock", state)
    ELSE IF take_n = 0
    THEN InvalidInput("take_n", "cannot take 0 cards", state)
    ELSE IF src.kind = "Talon" /\ take_n # 1
    THEN InvalidInput("take_n", "cannot move more than 1 card from talon", state)
    ELSE IF dst.kind = "Foundation" /\ take_n # 1
    THEN InvalidInput("take_n", "cannot move more than 1 card to foundation", state)
    ELSE IF dst.kind = "Stock"
    THEN InvalidInput("dst", "cannot move cards to stock", state)
    ELSE IF dst.kind = "Talon"
    THEN InvalidInput("dst", "cannot move cards to talon", state)
    ELSE Ok(state)

\* the input validation that opens move_cards: take_n, then src, then dst
validate_input(state, src, take_n, dst) ==
    IF take_n = 0
    THEN InvalidInput("take_n", "cannot take 0 cards", state)
    ELSE IF src.kind = "Stock"
    THEN InvalidInput("src", "cannot move cards from stock", state)
    ELSE IF src.kind = "Talon" /\ take_n # 1
    THEN InvalidInput("take_n", "cannot move more than 1 card from talon", state)
    ELSE IF dst.kind = "Foundation" /\ take_n # 1
    THEN InvalidInput("take_n", "cannot move more than 1 card to foundation", state)
    ELSE IF dst.kind = "Stock"
    THEN InvalidInput("dst", "cannot move cards to stock", state)
    ELSE IF dst.kind = "Talon"
    THEN InvalidInput("dst", "cannot move cards to talon", state)
    ELSE Ok(state)

\* a move_cards without the src == dst shortcut
move_cards_no_shortcut(state, src, take_n, dst) ==
    IF ~validate_input(state, src, take_n, dst).ok
    THEN validate_input(state, src, take_n, dst)
    ELSE move_stacks(state, src, take_n, dst)

\* GameRules::move_cards on a Playing state
move_cards(state, src, take_n, dst) ==
    IF ~validate_input(state, src, take_n, dst).ok
    THEN validate_input(state, src, take_n, dst)
    ELSE IF src = dst
    THEN Ok(state)
    ELSE move_stacks(state, src, take_n, dst)

\* destinations that put the tableau piles before the foundations
auto_move_dsts_tableau_first(src, take_n) ==
    LET fs == IF take_n = 1
              THEN [i \in 1 .. NUM_FOUNDATIONS |-> Foundation(i - 1)]
              ELSE <<>>
        ts == [i \in 1 .. NUM_TABLEAU |-> Tableau(i - 1)]
    IN  SelectSeq(ts, LAMBDA dst : dst # src) \o fs

\* the destinations auto_move_card tries, in order
auto_move_dsts(src, take_n) ==
    LET fs == IF take_n = 1
              THEN [i \in 1 .. NUM_FOUNDATIONS |-> Foundation(i - 1)]
              ELSE <<>>
        ts == [i \in 1 .. NUM_TABLEAU |-> Tableau(i - 1)]
    IN  fs \o SelectSeq(ts, LAMBDA dst : dst # src)

RECURSIVE try_move_cards(_, _, _, _, _)
\* a closure that returns every error, a rule violation too
tried_any_error(r, state, src, take_n, dsts, i) == r

\* match try_move_cards(dst)? { Some(result) => return Ok(result), _ => {} }:
\* r is what move_cards returned for dsts[i]
tried(r, state, src, take_n, dsts, i) ==
    IF r.ok THEN r
    ELSE IF r.kind = "InvalidInput" THEN r
    ELSE try_move_cards(state, src, take_n, dsts, i + 1)

\* the two loops of auto_move_card over try_move_cards(dst)?
try_move_cards(state, src, take_n, dsts, i) ==
    IF i > Len(dsts) THEN Ok(state)
    ELSE tried(move_cards(state, src, take_n, dsts[i]),
               state, src, take_n, dsts, i)

\* GameRules::auto_move_card
auto_move_card(state, src, take_n) ==
    IF src.kind = "Foundation" THEN Ok(state)
    ELSE try_move_cards(state, src, take_n, auto_move_dsts(src, take_n), 1)

\* the last card of each non-empty foundation
foundation_tops(foundations) ==
    {foundations[f][Len(foundations[f])] :
        f \in {g \in 1 .. NUM_FOUNDATIONS : foundations[g] # <<>>}}

\* a safety check that is content with one opposite-coloured foundation
is_safe_one_opposite(card_to_move, foundations) ==
    IF next(rank(card_to_move)) = None THEN TRUE
    ELSE
    LET prev_rank == next(rank(card_to_move))[1]
        tops == foundation_tops(foundations)
        opp == {c \in tops :
                    color(suit(c)) = opposite(color(suit(card_to_move)))}
    IN  IF ~\E c \in tops : suit(c) = suit(card_to_move) /\ rank(c) = prev_rank
        THEN FALSE
        ELSE IF rank(card_to_move) = Two THEN TRUE
        ELSE IF \E c \in opp : ~(rank(c) <= prev_rank) THEN FALSE
        ELSE Cardinality({f \in 1 .. NUM_FOUNDATIONS :
                            /\ foundations[f] # <<>>
                            /\ foundations[f][Len(foundations[f])] \in opp}) >= 1

\* a safety check that lets every Two through before looking for its Ace
is_safe_two_unchecked(card_to_move, foundations) ==
    IF next(rank(card_to_move)) = None THEN TRUE
    ELSE
    LET prev_rank == next(rank(card_to_move))[1]
        tops == foundation_tops(foundations)
        opp == {c \in tops :
                    color(suit(c)) = opposite(color(suit(card_to_move)))}
    IN  IF rank(card_to_move) = Two THEN TRUE
        ELSE IF ~\E c \in tops : suit(c) = suit(card_to_move) /\ rank(c) = prev_rank
        THEN FALSE
        ELSE IF \E c \in opp : ~(rank(c) <= prev_rank) THEN FALSE
        ELSE Cardinality({f \in 1 .. NUM_FOUNDATIONS :
                            /\ foundations[f] # <<>>
                            /\ foundations[f][Len(foundations[f])] \in opp}) = 2

\* a safety check that trusts every card
is_safe_always(card_to_move, foundations) == TRUE

\* GameRules::is_safe_to_move_to_foundation
is_safe_to_move_to_foundation(card_to_move, foundations) ==
    IF next(rank(card_to_move)) = None THEN TRUE
    ELSE
    LET prev_rank == next(rank(card_to_move))[1]
        tops == foundation_tops(foundations)
        opp == {c \in tops :
                    color(suit(c)) = opposite(color(suit(card_to_move)))}
    IN  IF ~\E c \in tops : suit(c) = suit(card_to_move) /\ rank(c) = prev_rank
        THEN FALSE
        ELSE IF rank(card_to_move) = Two THEN TRUE
        ELSE IF \E c \in opp : ~(rank(c) <= prev_rank) THEN FALSE
        ELSE Cardinality({f \in 1 .. NUM_FOUNDATIONS :
                            /\ foundations[f] # <<>>
                            /\ foundations[f][Len(foundations[f])] \in opp}) = 2

\* piles with the tableau from pile 6 down to pile 0
auto_piles_backwards ==
    <<Talon>> \o [i \in 1 .. NUM_TABLEAU |-> Tableau(NUM_TABLEAU - i)]

\* the piles auto_move_to_foundation inspects, in order
auto_piles == <<Talon>> \o [i \in 1 .. NUM_TABLEAU |-> Tableau(i - 1)]

RECURSIVE auto_move_scan(_, _)
\* the loop of auto_move_to_foundation over the piles
auto_move_scan(state, i) ==
    IF i > Len(auto_piles) THEN Ok(state)
    ELSE LET stack == get_stack(state, auto_piles[i])[1]
         IN  IF stack = <<>> THEN auto_move_scan(state, i + 1)
             ELSE IF is_safe_to_move_to_foundation(stack[Len(stack)],
                                                   state.foundations)
             THEN auto_move_card(state, auto_piles[i], 1)
             ELSE auto_move_scan(state, i + 1)

\* GameRules::auto_move_to_foundation
auto_move_to_foundation(state) == auto_move_scan(state, 1)

----------------------------------------------------------------------------
(* Deck orderings *)

\* the multiplier and offset of each shuffle; a multiplier is coprime to Card_N
ShuffleSeeds == <<<<29, 4>>, <<41, 3>>, <<25, 11>>, <<15, 5>>, <<21, 10>>, <<27, 51>>>>

shuffle_seed(k) ==
    IF k <= Len(ShuffleSeeds) THEN ShuffleSeeds[k]
    ELSE <<IF ((2 * k) + 1) % Rank_N = 0 THEN (2 * k) + 3 ELSE (2 * k) + 1, k>>

\* shuffle_with_rng: a shuffled deck, here the affine permutation number k of
\* new_deck (the random source is external; only its shuffle is consumed)
shuffle_with_rng(d, k) ==
    [i \in 1 .. Len(d) |->
        d[((((i - 1) * shuffle_seed(k)[1]) + shuffle_seed(k)[2]) % Len(d)) + 1]]

\* the deck orderings games start from: the unshuffled new_deck (as in the
\* tests) and shuffles of it
deck_no(k) == IF k = 1 THEN new_deck ELSE shuffle_with_rng(new_deck, k - 1)

Decks == {deck_no(k) : k \in 1 .. NumDecks}

----------------------------------------------------------------------------
(* The rules engine as a state machine: a caller holds one game state and *)
(* replaces it by the result of each successful call.                     *)
(*                                                                         *)
(* steps bounds the exploration: it counts the calls that changed the game *)
(* state.  A call that returns the state it was given (an error, a no-op)  *)
(* is recorded in last and ends the explored run, since every state it     *)
(* could lead to is also reached without it.                               *)

\* UIState: the five states of the interaction layer
Dealing(s) == [st |-> "Dealing", since_last_deal |-> s.since_last_deal]

Hovering(p) == [st |-> "Hovering", pile |-> p]

Selecting(s) == [st |-> "Selecting", sel |-> s]

Moving(src, take_n, dst) ==
    [st |-> "Moving", src |-> src, take_n |-> take_n, dst |-> dst]

AutoMoving(s) ==
    [st |-> "AutoMoving", since_last_move |-> s.since_last_move,
     interval |-> s.interval, prev_pile_ref |-> s.prev_pile_ref]

\* DealingState::new
DealingState_new == [since_last_deal |-> 0]

NoPile == [kind |-> "None", n |-> 0]

Call(op, src, n, dst, pre, r) ==
    [op |-> op, src |-> src, n |-> n, dst |-> dst, pre |-> pre,
     res |-> [ok |-> r.ok, kind |-> r.kind, field |-> r.field, reason |-> r.reason]]

TakeNs == 0 .. MaxTake

stepped(state, new_state) == IF new_state = state THEN MaxSteps ELSE steps + 1

\* the stock left by a full deal, drawn at once
DrawNs == (0 .. MaxDraw) \cup {Card_N - DEAL_N}

Init ==
    /\ deck \in Decks
    /\ game = InitialGameState(deck)
    /\ last = Call("new", NoPile, 0, NoPile, InitialGameState(deck),
                   Ok(InitialGameState(deck)))
    /\ steps = 0
    /\ ui = Dealing(DealingState_new)

DealOne ==
    /\ game.kind = "Initial"
    /\ game' = deal_one(game)
    /\ last' = Call("deal_one", NoPile, 0, NoPile, game, Ok(deal_one(game)))
    /\ UNCHANGED <<deck, steps, ui>>

DealAll ==
    /\ game.kind = "Initial"
    /\ game' = deal_all(game)
    /\ last' = Call("deal_all", NoPile, 0, NoPile, game, Ok(deal_all(game)))
    /\ UNCHANGED <<deck, steps, ui>>

\* a game in play whose explored run has not ended
in_play == game.kind = "Playing" /\ steps < MaxSteps

DrawStock(n) ==
    /\ in_play
    /\ game' = draw_stock(game, n)
    /\ last' = Call("draw_stock", NoPile, n, NoPile, game, Ok(draw_stock(game, n)))
    /\ steps' = stepped(game, game')
    /\ UNCHANGED <<deck, ui>>

MoveCards(src, take_n, dst) ==
    /\ in_play
    /\ LET r == move_cards(game, src, take_n, dst)
       IN  /\ game' = r.state
           /\ last' = Call("move_cards", src, take_n, dst, game, r)
    /\ steps' = stepped(game, game')
    /\ UNCHANGED <<deck, ui>>

AutoMoveCard(src, take_n) ==
    /\ in_play
    /\ LET r == auto_move_card(game, src, take_n)
       IN  /\ game' = r.state
           /\ last' = Call("auto_move_card", src, take_n, NoPile, game, r)
    /\ steps' = stepped(game, game')
    /\ UNCHANGED <<deck, ui>>

AutoMoveToFoundation ==
    /\ in_play
    /\ LET r == auto_move_to_foundation(game)
       IN  /\ game' = r.state
           /\ last' = Call("auto_move_to_foundation", NoPile, 0, NoPile, game, r)
    /\ steps' = stepped(game, game')
    /\ UNCHANGED <<deck, ui>>

Next ==
    \/ DealOne
    \/ DealAll
    \/ in_play /\ \E n \in DrawNs : DrawStock(n)
    \/ in_play /\ \E src \in PileRefs, take_n \in TakeNs, dst \in PileRefs :
            MoveCards(src, take_n, dst)
    \/ in_play /\ \E src \in PileRefs, take_n \in TakeNs : AutoMoveCard(src, take_n)
    \/ AutoMoveToFoundation

Spec == Init /\ [][Next]_vars

----------------------------------------------------------------------------
(* Drawing through the stock: after the deal, draw_stock is called with   *)
(* one draw size until the stock is empty, and once more (the recycle).   *)

TripNs == (1 .. MaxDraw) \cup {Card_N - DEAL_N}

DrawTrip(n) ==
    /\ game.kind = "Playing"
    /\ \/ last.op = "deal_all"
       \/ last.op = "draw_stock" /\ last.n = n /\ last.pre.stock # <<>>
    /\ game' = draw_stock(game, n)
    /\ last' = Call("draw_stock", NoPile, n, NoPile, game, Ok(draw_stock(game, n)))
    /\ UNCHANGED <<deck, steps, ui>>

NextDraw ==
    \/ DealAll
    \/ \E n \in TripNs : DrawTrip(n)

SpecDraw == Init /\ [][NextDraw]_vars

----------------------------------------------------------------------------
(* valid_seq on its own: a pile reference and a run of cards               *)

\* a run that valid_seq accepts for a tableau or for a foundation pile
valid_run(r) == valid_seq(Tableau(0), r) \/ valid_seq(Foundation(0), r)

\* the cards that continue a run ending in card d, on a tableau or foundation
followers == [d \in Cards |-> {c \in Cards : valid_run(<<d, c>>)}]

\* the runs of n + 1 cards that extend a run of rs by one card: a valid run
\* by any card, a run of face-up cards by a card that continues its last card
grow(rs) ==
    {Append(r, c) : r \in {q \in rs : valid_run(q)}, c \in Cards}
    \cup
    UNION {{Append(r, c) : c \in followers[r[Len(r)]]} :
            r \in {q \in rs : all_face_up(q)}}

RECURSIVE runs_of(_)
\* the runs of n cards handed to valid_seq: every card, every pair of cards,
\* and longer runs as grown from them
runs_of(n) ==
    IF n = 1 THEN {<<c>> : c \in Cards}
    ELSE IF n = 2 THEN {<<c, d>> : c \in Cards, d \in Cards}
    ELSE grow(runs_of(n - 1))

InitSeq ==
    /\ deck = new_deck
    /\ game = InitialGameState(deck)
    /\ last = Call("new", NoPile, 0, NoPile, <<>>, Ok(game))
    /\ steps = 0
    /\ ui = Dealing(DealingState_new)

\* valid_seq(p, cs); the run is recorded as the input of the call
ValidSeq(p, cs) ==
    /\ last' = [op |-> "valid_seq", src |-> p, n |-> Len(cs), dst |-> NoPile,
                pre |-> cs,
                res |-> [ok |-> valid_seq(p, cs), kind |-> "", field |-> "",
                         reason |-> ""]]
    /\ UNCHANGED <<deck, game, steps, ui>>

\* one call per run
NextSeq ==
    /\ last.op = "new"
    /\ \E n \in 1 .. MaxRun :
            \E p \in {Tableau(0), Foundation(0), Stock, Talon}, cs \in runs_of(n) :
                ValidSeq(p, cs)

SpecSeq == InitSeq /\ [][NextSeq]_vars

----------------------------------------------------------------------------
(* Properties of the deal *)

RECURSIVE concat(_)
concat(piles) == IF piles = <<>> THEN <<>> ELSE Head(piles) \o concat(Tail(piles))

\* every card of every pile of a game state, whatever its variant
all_cards(state) ==
    CASE state.kind = "Initial" -> concat(state.tableau) \o state.stock
      [] state.kind = "Playing" ->
            concat(state.tableau) \o concat(state.foundations)
                \o state.stock \o state.talon
      [] OTHER -> concat(state.foundations)

idents_of(cs) == [i \in 1 .. Len(cs) |-> ident(cs[i])]

fresh == InitialGameState(deck)

\* C2: dealing card by card with deal_one until it returns Complete yields
\* the Playing state that deal_all returns for the same fresh deck (tableau,
\* every face-up flag, stock, empty foundations and talon).
C2_DealOneEqualsDealAll ==
    (game.kind = "Playing" /\ last.op = "deal_one") => game = deal_all(fresh)

\* the 28th deal_one call has completed the deal
C2_Witness ==
    /\ game.kind = "Playing"
    /\ last.op = "deal_one"
    /\ last.pre.kind = "Initial"
    /\ Len(last.pre.stock) = (Card_N - DEAL_N) + 1

after_deal == game.kind = "Playing" /\ last.op \in {"deal_one", "deal_all"}

\* C3: after a full deal tableau pile i holds i + 1 cards, the stock holds the
\* other 24, foundations and talon are empty, and in every tableau pile
\* exactly the top card is face-up.
C3_FullDealShape ==
    after_deal =>
        /\ \A i \in 0 .. (NUM_TABLEAU - 1) :
            /\ Len(game.tableau[i + 1]) = i + 1
            /\ \A j \in 1 .. (i + 1) :
                    face_up(game.tableau[i + 1][j]) <=> (j = i + 1)
        /\ Len(game.stock) = 24
        /\ \A f \in 1 .. NUM_FOUNDATIONS : game.foundations[f] = <<>>
        /\ game.talon = <<>>

\* deal_all has dealt a fresh deck
C3_Witness ==
    /\ game.kind = "Playing"
    /\ last.op = "deal_all"
    /\ last.pre = fresh

\* the piles in the order the deal visits them: round r deals into r .. 6
RECURSIVE deal_order(_)
deal_order(r) ==
    IF r = NUM_TABLEAU THEN <<>>
    ELSE [i \in 1 .. (NUM_TABLEAU - r) |-> (r + i) - 1] \o deal_order(r + 1)

\* the round of the e-th dealt card (e from 0)
RECURSIVE round_of(_, _)
round_of(e, r) ==
    IF e < NUM_TABLEAU - r THEN r ELSE round_of(e - (NUM_TABLEAU - r), r + 1)

\* the deck cards dealt so far (d of them) that went to pile i, in deal order;
\* the e-th dealt card is the deck card at index 51 - e
dealt_to(i, d) ==
    LET es == SelectSeq([e \in 1 .. d |-> e - 1],
                        LAMBDA e : deal_order(0)[e + 1] = i)
    IN  [k \in 1 .. Len(es) |-> ident(deck[Card_N - es[k]])]

RECURSIVE sum_below(_)
\* sum over k < j of (6 - k)
sum_below(j) == IF j = 0 THEN 0 ELSE sum_below(j - 1) + ((NUM_TABLEAU - 1) - (j - 1))

\* C4: the deal is triangular: each deal_one takes the top card of the stock,
\* round r places one card into each of piles r .. 6 from left to right, so
\* that after the full deal the j-th card from the bottom of pile i is the deck
\* card at index 51 - (i + sum over k < j of (6 - k)) and the stock is the
\* first 24 deck cards in their original order.
C4_TriangularOrder ==
    (game.kind \in {"Initial", "Playing"}
        /\ last.op \in {"new", "deal_one", "deal_all"}) =>
        LET d == Card_N - Len(game.stock)
        IN  /\ game.stock = SubSeq(deck, 1, Card_N - d)
            /\ \A i \in 0 .. (NUM_TABLEAU - 1) :
                    idents_of(game.tableau[i + 1]) = dealt_to(i, d)
            /\ d = DEAL_N =>
                /\ Len(game.stock) = 24
                /\ \A i \in 0 .. (NUM_TABLEAU - 1) :
                    \A j \in 0 .. i :
                        ident(game.tableau[i + 1][j + 1])
                            = ident(deck[(Card_N - (i + sum_below(j)))])

\* deal_one has just dealt the first card of the second round, onto pile 1
C4_Witness ==
    /\ game.kind = "Initial"
    /\ last.op = "deal_one"
    /\ Len(game.stock) = Card_N - (NUM_TABLEAU + 1)
    /\ Len(game.tableau[2]) = 2

\* while dealing: the number of cards dealt so far
dealing == game.kind \in {"Initial", "Playing"}
                /\ last.op \in {"new", "deal_one", "deal_all"}

\* the e-th dealt card (e from 0) as it lies in the tableau: round r adds one
\* card to each of its piles, so the card is at position r + 1 of its pile
dealt_nth(e) == game.tableau[deal_order(0)[e + 1] + 1][round_of(e, 0) + 1]

\* C5 as stated: in every round of the deal the card dealt last in the round
\* (into the highest-indexed pile) is face-up and every other card of the
\* round is face-down.
C5_LastOfRoundFaceUp ==
    dealing =>
        \A e \in 0 .. ((Card_N - Len(game.stock)) - 1) :
            face_up(dealt_nth(e)) <=> (deal_order(0)[e + 1] = NUM_TABLEAU - 1)

\* C5 amended: in every round r of the deal the card dealt first in the round
\* (into pile r, the lowest-indexed pile of the round, which it tops) is
\* face-up and every other card of the round is face-down.
C5_FirstOfRoundFaceUp ==
    dealing =>
        \A e \in 0 .. ((Card_N - Len(game.stock)) - 1) :
            face_up(dealt_nth(e)) <=> (deal_order(0)[e + 1] = round_of(e, 0))

\* deal_one has just dealt the last card of the first round, onto pile 6
C5_Witness ==
    /\ game.kind = "Initial"
    /\ last.op = "deal_one"
    /\ Len(game.stock) = Card_N - NUM_TABLEAU
    /\ Len(game.tableau[NUM_TABLEAU]) = 1
    /\ ~face_up(game.tableau[NUM_TABLEAU][1])

\* C6: draw_stock(state, n) never fails. With a non-empty stock it moves
\* min(n, |stock|) cards from the top of the stock onto the talon, face-up,
\* and leaves every other card as it was; with an empty stock it recycles
\* whatever n is: the new stock is the old talon reversed and face-down, the
\* new talon is empty.
C6_DrawStock ==
    last.op = "draw_stock" =>
        LET old == last.pre
            len == Len(old.stock)
            k == IF last.n < len THEN last.n ELSE len
        IN  /\ last.res.ok
            /\ game.kind = "Playing"
            /\ game.tableau = old.tableau
            /\ game.foundations = old.foundations
            /\ len > 0 =>
                /\ game.stock = SubSeq(old.stock, 1, len - k)
                /\ Len(game.talon) = Len(old.talon) + k
                /\ SubSeq(game.talon, 1, Len(old.talon)) = old.talon
                /\ \A i \in 1 .. k :
                    /\ face_up(game.talon[Len(old.talon) + i])
                    /\ ident(game.talon[Len(old.talon) + i])
                            = ident(old.stock[(len - k) + i])
            /\ len = 0 =>
                /\ game.talon = <<>>
                /\ Len(game.stock) = Len(old.talon)
                /\ \A i \in 1 .. Len(old.talon) :
                    /\ ~face_up(game.stock[i])
                    /\ ident(game.stock[i])
                            = ident(old.talon[(Len(old.talon) + 1) - i])

\* the empty stock has been recycled from a talon that held cards
C6_Witness ==
    /\ last.op = "draw_stock"
    /\ last.pre.stock = <<>>
    /\ last.pre.talon # <<>>
    /\ game.stock # <<>>

\* C7: draw/recycle round trip: from a dealt state (empty talon, face-down
\* stock S), drawing n >= 1 cards at a time until the stock is empty leaves a
\* talon whose cards, reversed, are S in order, and the next draw_stock call
\* (the recycle) yields the stock S, face-down, and an empty talon.
C7_DrawRecycleRoundTrip ==
    (last.op = "draw_stock" /\ last.n >= 1) =>
        LET S == SubSeq(deck, 1, Card_N - DEAL_N)
        IN  /\ (last.pre.stock # <<>> /\ game.stock = <<>>) =>
                    idents_of(Reverse(game.talon)) = idents_of(S)
            /\ last.pre.stock = <<>> =>
                    (game.stock = S /\ game.talon = <<>>)

\* the value of a card counted from the Ace (1) up to the King (13)
pips(c) == Rank_N - rank(c)

\* C8: valid_seq(pile, cards) is false when any card of the run is face-down,
\* whatever the pile. Otherwise a Tableau run is valid iff each card differs
\* in colour from the card before it and is exactly one rank lower, a
\* Foundation run iff each card has the suit of the card before it and is
\* exactly one rank higher (neither wraps between Ace and King), a Stock run
\* never and a Talon run always.
C8_ValidSeq ==
    last.op = "valid_seq" =>
        LET cs == last.pre
            pairs == 1 .. (Len(cs) - 1)
        IN  last.res.ok <=>
                /\ \A i \in 1 .. Len(cs) : face_up(cs[i])
                /\ last.src.kind = "Tableau" =>
                    \A i \in pairs :
                        /\ color(suit(cs[i + 1])) # color(suit(cs[i]))
                        /\ pips(cs[i + 1]) = pips(cs[i]) - 1
                /\ last.src.kind = "Foundation" =>
                    \A i \in pairs :
                        /\ suit(cs[i + 1]) = suit(cs[i])
                        /\ pips(cs[i + 1]) = pips(cs[i]) + 1
                /\ last.src.kind # "Stock"

\* a tableau run of three face-up cards has been accepted
C8_Witness ==
    /\ last.op = "valid_seq"
    /\ last.src.kind = "Tableau"
    /\ last.n = 3
    /\ last.res.ok

\* a move_cards call of at least one card whose src and dst are the same pile
same_pile_move == last.op = "move_cards" /\ last.src = last.dst /\ last.n >= 1

\* the call succeeded, returned Playing and left the state as it was
no_op == last.res.ok /\ last.res.kind = "Playing" /\ game = last.pre

\* C9 as stated: for every pile reference p (Tableau, Foundation, Stock or
\* Talon) and every n >= 1, move_cards(state, p, n, p) succeeds and returns
\* Playing with the input state.
C9_SamePileNoOp == same_pile_move => no_op

\* C9 amended: move_cards(state, p, n, p) with n >= 1 is a successful no-op
\* for every Tableau reference p (whatever the pile holds, and even when n
\* exceeds its length) and for a Foundation reference with n = 1; for Stock,
\* for Talon and for a Foundation with n >= 2 it fails with InvalidInput and
\* leaves the state as it was.
C9_SamePileNoOpWhereAllowed ==
    same_pile_move =>
        IF last.src.kind = "Tableau" \/ (last.src.kind = "Foundation" /\ last.n = 1)
        THEN no_op
        ELSE /\ ~last.res.ok
             /\ last.res.kind = "InvalidInput"
             /\ last.res.field = (IF last.src.kind = "Stock" THEN "src"
                                  ELSE IF last.n # 1 THEN "take_n" ELSE "dst")
             /\ game = last.pre

\* two cards have been moved from tableau pile 0, which holds one card, onto
\* itself
C9_Witness ==
    /\ same_pile_move
    /\ last.src = Tableau(0)
    /\ last.n = 2
    /\ Len(last.pre.tableau[1]) = 1
    /\ last.res.ok

\* the pile a reference names in a Playing state, or no pile
pile_of(state, p) ==
    CASE p.kind = "Tableau" /\ p.n < NUM_TABLEAU -> <<state.tableau[p.n + 1]>>
      [] p.kind = "Foundation" /\ p.n < NUM_FOUNDATIONS ->
            <<state.foundations[p.n + 1]>>
      [] p.kind = "Stock" -> <<state.stock>>
      [] p.kind = "Talon" -> <<state.talon>>
      [] OTHER -> <<>>

\* the rule of a pile kind for card d lying on card c, both face-up
lies_on(kind, c, d) ==
    /\ face_up(c) /\ face_up(d)
    /\ kind = "Tableau" =>
            (color(suit(d)) # color(suit(c)) /\ pips(d) = pips(c) - 1)
    /\ kind = "Foundation" => (suit(d) = suit(c) /\ pips(d) = pips(c) + 1)
    /\ kind # "Stock"

\* a run of face-up cards, each lying on the one before by the rule of the kind
run_fits(kind, cs) ==
    /\ \A i \in 1 .. Len(cs) : face_up(cs[i])
    /\ kind # "Stock"
    /\ \A i \in 1 .. (Len(cs) - 1) : lies_on(kind, cs[i], cs[i + 1])

\* the destination rule: a King opens an empty tableau pile, an Ace an empty
\* foundation, any other pile takes a card that lies on its top card
dst_fits(kind, pile, c) ==
    IF pile = <<>>
    THEN (kind = "Tableau" => pips(c) = Rank_N) /\ (kind = "Foundation" => pips(c) = 1)
    ELSE lies_on(kind, pile[Len(pile)], c)

\* the call failed with the given kind of error and left the state as it was
failed_with(kind) == ~last.res.ok /\ last.res.kind = kind /\ game = last.pre

reaches_dst ==
    /\ last.op = "move_cards"
    /\ last.n >= 1
    /\ last.src.kind \in {"Tableau", "Foundation", "Talon"}
    /\ last.src.kind = "Talon" => last.n = 1
    /\ last.dst.kind \in {"Tableau", "Foundation"}
    /\ last.dst.kind = "Foundation" => last.n = 1
    /\ last.src # last.dst
    /\ pile_of(last.pre, last.src) # <<>>
    /\ pile_of(last.pre, last.dst) # <<>>
    /\ last.n <= Len(pile_of(last.pre, last.src)[1])
    /\ valid_seq(last.src, SubSeq(pile_of(last.pre, last.src)[1],
                    (Len(pile_of(last.pre, last.src)[1]) - last.n) + 1,
                    Len(pile_of(last.pre, last.src)[1])))

real_piles ==
    {Tableau(n) : n \in 0 .. (NUM_TABLEAU - 1)}
        \cup {Foundation(n) : n \in 0 .. (NUM_FOUNDATIONS - 1)} \cup {Stock, Talon}

\* a move_cards call between two piles that succeeded and is still in play
moved == /\ last.op = "move_cards"
         /\ last.res.ok
         /\ last.src # last.dst
         /\ game.kind = "Playing"

----------------------------------------------------------------------------
(* The endgame: every suit is on its foundation from the Ace up, but for   *)
(* its highest cards, which wait on a tableau pile of their own, only the *)
(* top one face-up.  Cards are played home by move_cards and the auto      *)
(* moves, until the game is won.                                           *)

\* the card of suit number s (from 0) and rank r
card_of(s, r) == from_index((s * Rank_N) + r)

\* the foundation of suit s when its out highest cards are missing: Ace first
home_pile(s, out) ==
    [i \in 1 .. (Rank_N - out) |-> set_face(card_of(s, Rank_N - i), TRUE)]

\* the tableau pile of the out highest cards of suit s: King at the bottom
waiting_pile(s, out) ==
    [i \in 1 .. out |-> set_face(card_of(s, i - 1), i = out)]

\* the endgame state in which outs[s + 1] cards of suit s wait
end_game(outs) ==
    PlayingGameState(
        [i \in 1 .. NUM_TABLEAU |->
            IF i <= FrenchSuit_N THEN waiting_pile(i - 1, outs[i]) ELSE <<>>],
        [f \in 1 .. NUM_FOUNDATIONS |-> home_pile(f - 1, outs[f])],
        <<>>, <<>>)

InitEnd ==
    /\ deck = new_deck
    /\ \E outs \in [1 .. FrenchSuit_N -> 0 .. MaxOut] :
            /\ \E s \in 1 .. FrenchSuit_N : outs[s] > 0
            /\ game = end_game(outs)
    /\ last = Call("new", NoPile, 0, NoPile, game, Ok(game))
    /\ steps = 0
    /\ ui = Dealing(DealingState_new)

\* the piles of the tableau and the four foundations
tableau_piles == {Tableau(n) : n \in 0 .. (NUM_TABLEAU - 1)}

foundation_piles == {Foundation(n) : n \in 0 .. (NUM_FOUNDATIONS - 1)}

NextEnd ==
    \/ in_play /\ \E src \in tableau_piles \cup foundation_piles,
                      dst \in foundation_piles : MoveCards(src, 1, dst)
    \/ in_play /\ \E src \in tableau_piles : AutoMoveCard(src, 1)
    \/ AutoMoveToFoundation

SpecEnd == InitEnd /\ [][NextEnd]_vars

\* the same endgames, with cards taken back from the foundations: move_cards
\* accepts a Foundation as src, and a Tableau as dst
NextBack ==
    \/ in_play /\ \E src \in foundation_piles, take_n \in 1 .. MaxTake,
                      dst \in tableau_piles : MoveCards(src, take_n, dst)
    \/ in_play /\ \E src \in tableau_piles, dst \in foundation_piles :
            MoveCards(src, 1, dst)

SpecBack == InitEnd /\ [][NextBack]_vars

\* the number of cards foundation f (from 1) holds after the recorded move
held_after(f) ==
    Len(last.pre.foundations[f])
        + (IF last.dst = Foundation(f - 1) /\ last.src # last.dst THEN last.n ELSE 0)
        - (IF last.src = Foundation(f - 1) /\ last.src # last.dst THEN last.n ELSE 0)

----------------------------------------------------------------------------
(* The interaction layer (ui_state.rs): State::on(self, event, game_state) *)
(* returns the next UIState and may replace the game state.                *)

\* Event; every record lists its fields in the order TLC keeps them in, so
\* that the workers that share an event never reorder it
Tick(dt) == [dt |-> dt, ev |-> "Tick"]

Direction(dir, shift) == [ev |-> "Direction", dir |-> dir, shift |-> shift]

Interact == [ev |-> "Interact"]

Goto(i) == [i |-> i, ev |-> "Goto"]

Cancel == [ev |-> "Cancel"]

Click(card_location) == [ev |-> "Click", loc |-> card_location]

Directions == {"Up", "Down", "Left", "Right"}

\* CardLocation, with pile_ref() and n_from_bottom()
CardLocation_Tableau(p, n) == [pile_ref |-> Tableau(p), n_from_bottom |-> Some(n)]

CardLocation_of(p) == [pile_ref |-> p, n_from_bottom |-> None]

\* SelectingState
SelectingState_Tableau(pile_n, take_n) ==
    [kind |-> "Tableau", pile_n |-> pile_n, take_n |-> take_n]

SelectingState_Talon == [kind |-> "Talon"]

\* Durations, in milliseconds
DEAL_INTERVAL == 100
INITIAL_DELAY == 300
INITIAL_MOVE_INTERVAL == 400
MOVE_INTERVAL_DECREASE == 25
MIN_MOVE_INTERVAL == 50

\* AutoMovingState::new
AutoMovingState_new(prev_pile_ref) ==
    [since_last_move |-> INITIAL_MOVE_INTERVAL - INITIAL_DELAY,
     interval |-> INITIAL_MOVE_INTERVAL,
     prev_pile_ref |-> prev_pile_ref]

\* the process has panicked (an unwrap of None or of an Err, an index out of
\* range): no UIState is returned
Panic == [st |-> "Panic"]

\* what on() leaves behind: the next UIState, the game state, and whether it
\* made a rules-engine call that returns a Result ("ok", "err") or not ("none")
Out(next_ui, game_state, call) ==
    [ui |-> next_ui, game |-> game_state, call |-> call]

\* match new { Playing(new) => play != &new, _ => true }; None when the unwrap
\* inside auto_move_to_foundation has panicked
auto_move_changes(game_state, new) ==
    IF ~new.ok THEN None
    ELSE IF new.kind = "Playing" THEN Some(game_state # new.state)
    ELSE Some(TRUE)

\* a check that never finds a card to auto-move
can_auto_move_never(game_state) == Some(FALSE)

\* AutoMovingState::can_auto_move
can_auto_move(game_state) ==
    IF game_state.kind = "Playing"
    THEN auto_move_changes(game_state, auto_move_to_foundation(game_state))
    ELSE Some(FALSE)

\* if AutoMovingState::can_auto_move(game_state) { AutoMoving(new(prev)) } ..
settled(can, game_state, prev_pile_ref, otherwise) ==
    IF can = None THEN Out(Panic, game_state, "ok")
    ELSE IF can[1]
    THEN Out(AutoMoving(AutoMovingState_new(prev_pile_ref)), game_state, "ok")
    ELSE Out(otherwise, game_state, "ok")

\* after a successful call: *game_state = new_state, then the check above
settle(game_state, prev_pile_ref, otherwise) ==
    settled(can_auto_move(game_state), game_state, prev_pile_ref, otherwise)

\* match call { Ok(new_state) => { .. } Err(_) => on_err }: r is what the
\* rules engine returned
after_call(r, game_state, prev_pile_ref, on_ok, on_err) ==
    IF r.ok THEN settle(r.state, prev_pile_ref, on_ok)
    ELSE Out(on_err, game_state, "err")

\* a Shift that picks up the top card of any pile but the stock
hover_shift_any_pile(self, dir, game_state) ==
    IF get_stack(game_state, self) = None THEN Panic
    ELSE IF get_stack(game_state, self)[1] = <<>> \/ self.kind = "Stock"
    THEN Hovering(self)
    ELSE Moving(self, 1, Tableau(1))

\* HoveringState::on, Direction with shift: propose a move or a selection
hover_shift(self, dir, game_state) ==
    IF get_stack(game_state, self) = None THEN Panic
    ELSE
    LET pile == get_stack(game_state, self)[1]
        pile_len == Len(pile)
    IN  IF pile_len = 0 THEN Hovering(self)
        ELSE
        CASE self.kind = "Stock" -> Hovering(self)
          [] self.kind = "Talon" ->
                IF dir \in {"Up", "Left"} THEN Hovering(self)
                ELSE IF dir = "Down" THEN Moving(Talon, 1, Tableau(1))
                ELSE Moving(Talon, 1, Foundation(0))
          [] self.kind = "Foundation" -> Hovering(self)
          [] OTHER ->
                CASE dir = "Down" -> Hovering(self)
                  [] dir = "Up" ->
                        IF pile_len = 1
                        THEN IF self.n <= 2 THEN Hovering(self)
                             ELSE Moving(Tableau(self.n), 1, Foundation(self.n - 3))
                        ELSE IF ~face_up(pile[pile_len - 1]) THEN Hovering(self)
                        ELSE Selecting(SelectingState_Tableau(self.n, 2))
                  [] dir = "Left" ->
                        IF self.n = 0 THEN Hovering(self)
                        ELSE Moving(Tableau(self.n), 1, Tableau(self.n - 1))
                  [] OTHER ->
                        IF self.n = 6 THEN Hovering(self)
                        ELSE Moving(Tableau(self.n), 1, Tableau(self.n + 1))

\* HoveringState::on, Direction without shift: the cursor moves
hover_move(self, dir) ==
    CASE self.kind = "Stock" ->
            IF dir \in {"Up", "Left"} THEN Hovering(self)
            ELSE IF dir = "Right" THEN Hovering(Talon)
            ELSE Hovering(Tableau(0))
      [] self.kind = "Talon" ->
            CASE dir = "Up" -> Hovering(self)
              [] dir = "Left" -> Hovering(Stock)
              [] dir = "Right" -> Hovering(Foundation(0))
              [] OTHER -> Hovering(Tableau(1))
      [] self.kind = "Foundation" ->
            CASE dir = "Up" -> Hovering(self)
              [] dir = "Left" ->
                    IF self.n = 0 THEN Hovering(Talon)
                    ELSE Hovering(Foundation(self.n - 1))
              [] dir = "Right" ->
                    IF self.n = 3 THEN Hovering(self)
                    ELSE Hovering(Foundation(self.n + 1))
              [] OTHER -> Hovering(Tableau(self.n + 3))
      [] OTHER ->
            CASE dir = "Down" -> Hovering(self)
              [] dir = "Up" ->
                    CASE self.n = 0 -> Hovering(Stock)
                      [] self.n \in {1, 2} -> Hovering(Talon)
                      [] OTHER -> Hovering(Foundation(self.n - 3))
              [] dir = "Left" ->
                    IF self.n = 0 THEN Hovering(self)
                    ELSE Hovering(Tableau(self.n - 1))
              [] OTHER ->
                    IF self.n = 6 THEN Hovering(self)
                    ELSE Hovering(Tableau(self.n + 1))

\* an Interact that deals a new game once the game is Won
hover_interact_redeals(self, game_state) ==
    IF game_state.kind = "Playing"
    THEN after_call(IF self = Stock THEN Ok(draw_stock(game_state, 1))
                    ELSE auto_move_card(game_state, self, 1),
                    game_state, self, Hovering(self), Hovering(self))
    ELSE IF game_state.kind = "Win"
    THEN Out(Dealing(DealingState_new), InitialGameState(new_deck), "none")
    ELSE Out(Hovering(self), game_state, "none")

\* HoveringState::on, Interact: draw from the stock or auto-move the top card
hover_interact(self, game_state) ==
    IF game_state.kind = "Playing"
    THEN after_call(IF self = Stock THEN Ok(draw_stock(game_state, 1))
                    ELSE auto_move_card(game_state, self, 1),
                    game_state, self, Hovering(self), Hovering(self))
    ELSE Out(Hovering(self), game_state, "none")

\* HoveringState::on, Goto
hover_goto(self, i) ==
    CASE i = 1 -> Hovering(Stock)
      [] i = 2 -> Hovering(Talon)
      [] i \in 3 .. 6 -> Hovering(Foundation(i - 3))
      [] OTHER -> Hovering(self)

\* HoveringState::on, Click(Some(card_location))
hover_click(self, card_location, game_state) ==
    LET pile_ref == card_location.pile_ref
    IN  IF get_stack(game_state, pile_ref) = None
        THEN Out(Panic, game_state, "none")
        ELSE
        LET pile == get_stack(game_state, pile_ref)[1]
        IN  IF Len(pile) = 0 /\ pile_ref # Stock
            THEN Out(Hovering(pile_ref), game_state, "none")
            ELSE
            CASE pile_ref.kind = "Stock" ->
                    IF game_state.kind = "Playing"
                    THEN settle(draw_stock(game_state, 1), self, Hovering(Stock))
                    ELSE Out(Hovering(Stock), game_state, "none")
              [] pile_ref.kind = "Talon" ->
                    Out(Selecting(SelectingState_Talon), game_state, "none")
              [] pile_ref.kind = "Foundation" ->
                    Out(Hovering(Foundation(pile_ref.n)), game_state, "none")
              [] OTHER ->
                    LET take_n == card_location.n_from_bottom[1]
                    IN  IF take_n + 1 > Len(pile)
                        THEN Out(Panic, game_state, "none")
                        ELSE IF ~face_up(pile[Len(pile) - take_n])
                        THEN Out(Selecting(SelectingState_Tableau(pile_ref.n, 1)),
                                 game_state, "none")
                        ELSE Out(Selecting(SelectingState_Tableau(pile_ref.n,
                                                                  take_n + 1)),
                                 game_state, "none")

\* impl State for HoveringState
HoveringState_on(self, event, game_state) ==
    CASE event.ev = "Direction" ->
            IF event.shift
            THEN Out(hover_shift(self, event.dir, game_state), game_state, "none")
            ELSE Out(hover_move(self, event.dir), game_state, "none")
      [] event.ev = "Interact" -> hover_interact(self, game_state)
      [] event.ev = "Goto" -> Out(hover_goto(self, event.i), game_state, "none")
      [] event.ev = "Click" /\ event.loc # None ->
            hover_click(self, event.loc[1], game_state)
      [] OTHER -> Out(Hovering(self), game_state, "none")

\* the src and take_n a selection stands for
selected_src(self) == IF self.kind = "Tableau" THEN Tableau(self.pile_n) ELSE Talon

selected_take_n(self) == IF self.kind = "Tableau" THEN self.take_n ELSE 1

\* SelectingState::on, Direction
select_direction(self, dir, shift, game_state) ==
    IF self.kind = "Talon"
    THEN CASE dir \in {"Up", "Left"} -> Selecting(self)
           [] dir = "Right" -> Moving(Talon, 1, Foundation(0))
           [] OTHER -> Moving(Talon, 1, Tableau(1))
    ELSE
    CASE dir = "Up" ->
            IF shift
            THEN IF get_stack(game_state, Tableau(self.pile_n)) = None THEN Panic
                 ELSE
                 LET pile == get_stack(game_state, Tableau(self.pile_n))[1]
                 IN  IF Len(pile) = self.take_n THEN Selecting(self)
                     ELSE IF self.take_n + 1 > Len(pile) THEN Panic
                     ELSE IF ~face_up(pile[Len(pile) - self.take_n])
                     THEN Selecting(self)
                     ELSE Selecting(SelectingState_Tableau(self.pile_n,
                                                           self.take_n + 1))
            ELSE IF self.pile_n <= 2 THEN Selecting(self)
                 ELSE Moving(Tableau(self.pile_n), self.take_n,
                             Foundation(self.pile_n - 3))
      [] dir = "Down" ->
            IF self.take_n = 2 THEN Hovering(Tableau(self.pile_n))
            ELSE IF self.take_n = 0 THEN Panic
            ELSE Selecting(SelectingState_Tableau(self.pile_n, self.take_n - 1))
      [] dir = "Left" ->
            IF self.pile_n = 0 THEN Selecting(self)
            ELSE Moving(Tableau(self.pile_n), self.take_n, Tableau(self.pile_n - 1))
      [] OTHER ->
            IF self.pile_n = 6 THEN Selecting(self)
            ELSE Moving(Tableau(self.pile_n), self.take_n, Tableau(self.pile_n + 1))

\* SelectingState::on, Interact: auto-move the selected cards
select_interact(self, game_state) ==
    IF game_state.kind = "Playing"
    THEN after_call(auto_move_card(game_state, selected_src(self),
                                   selected_take_n(self)),
                    game_state, selected_src(self), Hovering(selected_src(self)),
                    Selecting(self))
    ELSE Out(Selecting(self), game_state, "none")

\* SelectingState::on, Goto
select_goto(self, i) ==
    IF self.kind = "Tableau"
    THEN CASE i = 1 -> Moving(Tableau(self.pile_n), self.take_n, Stock)
           [] i = 2 -> Moving(Tableau(self.pile_n), self.take_n, Talon)
           [] i \in 3 .. 6 ->
                Moving(Tableau(self.pile_n), self.take_n, Foundation(i - 3))
           [] OTHER -> Selecting(self)
    ELSE Selecting(self)

\* the click is on the card that is already selected
click_on_selected(self, card_location) ==
    IF self.kind = "Talon" THEN card_location.pile_ref = Talon
    ELSE /\ card_location.pile_ref = Tableau(self.pile_n)
         /\ self.take_n = card_location.n_from_bottom[1] + 1

\* SelectingState::on, Click(Some(card_location)); deferred is what
\* UIState::Hovering(pile_ref).on(event, game_state) returns
select_click_or(self, card_location, game_state, deferred) ==
    LET pile_ref == card_location.pile_ref
        on_selected == click_on_selected(self, card_location)
    IN  IF game_state.kind = "Playing"
        THEN IF pile_ref.kind = "Talon" /\ ~on_selected
             THEN Out(Selecting(SelectingState_Talon), game_state, "none")
             ELSE after_call(
                    IF on_selected
                    THEN auto_move_card(game_state, pile_ref, selected_take_n(self))
                    ELSE IF pile_ref.kind = "Stock"
                    THEN Ok(draw_stock(game_state, 1))
                    ELSE move_cards(game_state, selected_src(self),
                                    selected_take_n(self), pile_ref),
                    game_state, pile_ref, Hovering(pile_ref),
                    IF on_selected THEN Hovering(pile_ref) ELSE deferred.ui)
        ELSE CASE pile_ref.kind = "Stock" ->
                    Out(Hovering(Stock), game_state, "none")
               [] pile_ref.kind = "Talon" ->
                    Out(Selecting(SelectingState_Talon), game_state, "none")
               [] OTHER -> deferred

\* SelectingState::on, Click(Some(card_location))
select_click(self, card_location, game_state) ==
    select_click_or(self, card_location, game_state,
                    HoveringState_on(card_location.pile_ref,
                                     Click(Some(card_location)), game_state))

\* impl State for SelectingState
SelectingState_on(self, event, game_state) ==
    CASE event.ev = "Direction" ->
            Out(select_direction(self, event.dir, event.shift, game_state),
                game_state, "none")
      [] event.ev = "Interact" -> select_interact(self, game_state)
      [] event.ev = "Goto" -> Out(select_goto(self, event.i), game_state, "none")
      [] event.ev = "Cancel" ->
            Out(Hovering(selected_src(self)), game_state, "none")
      [] event.ev = "Click" /\ event.loc # None ->
            select_click(self, event.loc[1], game_state)
      [] OTHER -> Out(Selecting(self), game_state, "none")

\* MovingState::on, Direction: the destination the move is re-targeted to
moving_dst(self, dir) ==
    CASE self.dst.kind \in {"Stock", "Talon"} ->
            CASE dir \in {"Up", "Left"} -> self.dst
              [] dir = "Right" -> Foundation(0)
              [] OTHER -> IF self.dst.kind = "Stock" THEN Tableau(0) ELSE Tableau(1)
      [] self.dst.kind = "Foundation" ->
            CASE dir = "Up" -> self.dst
              [] dir = "Left" ->
                    IF self.dst.n = 0 THEN self.dst ELSE Foundation(self.dst.n - 1)
              [] dir = "Right" ->
                    IF self.dst.n = 3 THEN self.dst ELSE Foundation(self.dst.n + 1)
              [] OTHER -> Tableau(self.dst.n + 3)
      [] OTHER ->
            CASE dir = "Down" -> self.dst
              [] dir = "Up" ->
                    IF self.take_n = 1 /\ self.dst.n > 2
                    THEN Foundation(self.dst.n - 3)
                    ELSE self.dst
              [] dir = "Left" ->
                    IF self.dst.n = 0 THEN self.dst ELSE Tableau(self.dst.n - 1)
              [] OTHER ->
                    IF self.dst.n = 6 THEN self.dst ELSE Tableau(self.dst.n + 1)

\* a placement that takes the cards off src before the move is validated, and
\* leaves them off when it fails
moving_interact_takes_first(self, game_state) ==
    IF game_state.kind = "Playing"
    THEN after_call(move_cards(game_state, self.src, self.take_n, self.dst),
                    set_stack(game_state, self.src,
                              SubSeq(get_stack(game_state, self.src)[1], 1,
                                     Len(get_stack(game_state, self.src)[1])
                                        - self.take_n)),
                    self.dst, Hovering(self.dst), Hovering(self.src))
    ELSE Out(Hovering(self.src), game_state, "none")

\* a placement that keeps the pending move when it fails
moving_interact_stays(self, game_state) ==
    IF game_state.kind = "Playing"
    THEN after_call(move_cards(game_state, self.src, self.take_n, self.dst),
                    game_state, self.dst, Hovering(self.dst),
                    Moving(self.src, self.take_n, self.dst))
    ELSE Out(Hovering(self.src), game_state, "none")

\* a placement that never chains to the animation
moving_interact_unchained(self, game_state) ==
    IF game_state.kind = "Playing"
    THEN IF move_cards(game_state, self.src, self.take_n, self.dst).ok
         THEN Out(Hovering(self.dst),
                  move_cards(game_state, self.src, self.take_n, self.dst).state,
                  "ok")
         ELSE Out(Hovering(self.src), game_state, "err")
    ELSE Out(Hovering(self.src), game_state, "none")

\* MovingState::on, Interact: place the cards
moving_interact(self, game_state) ==
    IF game_state.kind = "Playing"
    THEN after_call(move_cards(game_state, self.src, self.take_n, self.dst),
                    game_state, self.dst, Hovering(self.dst), Hovering(self.src))
    ELSE Out(Hovering(self.src), game_state, "none")

\* MovingState::on, Click: defer to the selecting state of the move
moving_click(self, event, game_state) ==
    IF event.loc = None \/ self.src.kind \notin {"Talon", "Tableau"}
    THEN Out(Moving(self.src, self.take_n, self.dst), game_state, "none")
    ELSE IF self.src.kind = "Tableau" /\ event.loc[1].n_from_bottom = None
    THEN Out(Panic, game_state, "none")
    ELSE SelectingState_on(
            IF self.src.kind = "Talon" THEN SelectingState_Talon
            ELSE SelectingState_Tableau(self.src.n,
                                        event.loc[1].n_from_bottom[1] + 1),
            event, game_state)

\* impl State for MovingState
MovingState_on(self, event, game_state) ==
    CASE event.ev = "Direction" ->
            Out(Moving(self.src, self.take_n, moving_dst(self, event.dir)),
                game_state, "none")
      [] event.ev = "Interact" -> moving_interact(self, game_state)
      [] event.ev = "Goto" ->
            Out(Moving(self.src, self.take_n,
                       IF event.i \in 3 .. 6 THEN Foundation(event.i - 3)
                       ELSE self.dst),
                game_state, "none")
      [] event.ev = "Click" -> moving_click(self, event, game_state)
      [] OTHER -> Out(Moving(self.src, self.take_n, self.dst), game_state, "none")

Max(a, b) == IF a > b THEN a ELSE b

\* an end of a Tick that forgets the time the tick has added
auto_moving_rest_forgetful(can, self, since_last_move, interval, game_state) ==
    IF can = None THEN Out(Panic, game_state, "none")
    ELSE IF can[1]
    THEN Out(AutoMoving([since_last_move |-> self.since_last_move,
                         interval |-> interval,
                         prev_pile_ref |-> self.prev_pile_ref]),
             game_state, "none")
    ELSE Out(Hovering(self.prev_pile_ref), game_state, "none")

\* the end of a Tick: continue only if there is a card to auto-move next time
auto_moving_rest(can, self, since_last_move, interval, game_state) ==
    IF can = None THEN Out(Panic, game_state, "none")
    ELSE IF can[1]
    THEN Out(AutoMoving([since_last_move |-> since_last_move,
                         interval |-> interval,
                         prev_pile_ref |-> self.prev_pile_ref]),
             game_state, "none")
    ELSE Out(Hovering(self.prev_pile_ref), game_state, "none")

RECURSIVE auto_moving_loop(_, _, _, _)
\* one round of the loop: new is what auto_move_to_foundation returned
auto_moved(new, self, since_last_move, interval, game_state) ==
    IF ~new.ok THEN Out(Panic, game_state, "none")
    ELSE IF new.kind = "Playing"
    THEN IF game_state = new.state
         THEN Out(Hovering(self.prev_pile_ref), game_state, "none")
         ELSE auto_moving_loop(self, since_last_move, interval, new.state)
    ELSE Out(Hovering(self.prev_pile_ref), new.state, "none")

\* AutoMovingState::on, Tick: while since_last_move >= interval { .. }
auto_moving_loop(self, since_last_move, interval, game_state) ==
    IF since_last_move >= interval
    THEN IF game_state.kind = "Playing"
         THEN auto_moved(auto_move_to_foundation(game_state), self,
                         since_last_move - interval,
                         Max(Max(interval - MOVE_INTERVAL_DECREASE, 0),
                             MIN_MOVE_INTERVAL),
                         game_state)
         ELSE Out(Hovering(self.prev_pile_ref), game_state, "none")
    ELSE auto_moving_rest(can_auto_move(game_state), self, since_last_move,
                          interval, game_state)

\* an animation that Cancel ends
auto_moving_cancellable(self, event, game_state) ==
    IF event.ev = "Tick"
    THEN auto_moving_loop(self, self.since_last_move + event.dt, self.interval,
                          game_state)
    ELSE IF event.ev = "Cancel"
    THEN Out(Hovering(self.prev_pile_ref), game_state, "none")
    ELSE Out(AutoMoving(self), game_state, "none")

\* impl State for AutoMovingState
AutoMovingState_on(self, event, game_state) ==
    IF event.ev = "Tick"
    THEN auto_moving_loop(self, self.since_last_move + event.dt, self.interval,
                          game_state)
    ELSE Out(AutoMoving(self), game_state, "none")

\* the check after the deal: AutoMoving if a card can be auto-moved
after_the_deal(game_state) ==
    [settle(game_state, Stock, Hovering(Stock)) EXCEPT !.call = "none"]

\* a Tick that deals one card at most, whatever time has elapsed
dealing_once(since_last_deal, game_state) ==
    IF since_last_deal >= DEAL_INTERVAL /\ game_state.kind = "Initial"
    THEN IF deal_one(game_state).kind = "Initial"
         THEN Out(Dealing([since_last_deal |-> since_last_deal - DEAL_INTERVAL]),
                  deal_one(game_state), "none")
         ELSE after_the_deal(deal_one(game_state))
    ELSE Out(Dealing([since_last_deal |-> since_last_deal]), game_state, "none")

RECURSIVE dealing_loop(_, _)
\* one round of the loop: new_state is what deal_one returned
dealt(new_state, since_last_deal) ==
    IF new_state.kind = "Initial"
    THEN dealing_loop(since_last_deal, new_state)
    ELSE after_the_deal(new_state)

\* DealingState::on, Tick: while since_last_deal >= DEAL_INTERVAL { .. }
dealing_loop(since_last_deal, game_state) ==
    IF since_last_deal >= DEAL_INTERVAL
    THEN IF game_state.kind = "Initial"
         THEN dealt(deal_one(game_state), since_last_deal - DEAL_INTERVAL)
         ELSE Out(Hovering(Stock), game_state, "none")
    ELSE Out(Dealing([since_last_deal |-> since_last_deal]), game_state, "none")

\* impl State for DealingState
DealingState_on(self, event, game_state) ==
    CASE event.ev = "Tick" ->
            dealing_loop(self.since_last_deal + event.dt, game_state)
      [] event.ev \in {"Interact", "Click"} ->
            IF game_state.kind = "Initial"
            THEN after_the_deal(deal_all(game_state))
            ELSE Out(Hovering(Stock), game_state, "none")
      [] OTHER -> Out(Dealing(self), game_state, "none")

\* impl State for UIState
UIState_on(self, event, game_state) ==
    CASE self.st = "Dealing" -> DealingState_on(self, event, game_state)
      [] self.st = "Hovering" -> HoveringState_on(self.pile, event, game_state)
      [] self.st = "Selecting" -> SelectingState_on(self.sel, event, game_state)
      [] self.st = "Moving" -> MovingState_on(self, event, game_state)
      [] self.st = "AutoMoving" -> AutoMovingState_on(self, event, game_state)
      [] OTHER -> Out(self, game_state, "none")

----------------------------------------------------------------------------
(* The game component (game.rs): it owns the game state and the UIState,   *)
(* turns key presses, mouse presses and ticks into events and replaces the *)
(* UIState by on(event).  The locations a click can name are those of the  *)
(* piles as last rendered.                                                 *)

\* the length of tableau pile pile_n as RenderState::new shows it: a pending
\* move is shown with its cards on dst
shown_len(game_state, ui_state, pile_n) ==
    LET stack == get_stack(game_state, Tableau(pile_n))
        len == IF stack = None THEN 0 ELSE Len(stack[1])
    IN  IF ui_state.st = "Moving" /\ ui_state.dst # ui_state.src
        THEN IF ui_state.src = Tableau(pile_n) THEN Max(len - ui_state.take_n, 0)
             ELSE IF ui_state.dst = Tableau(pile_n) THEN len + ui_state.take_n
             ELSE len
        ELSE len

\* the CardLocations of the draw list: one per one-card pile, one per shown
\* tableau card (counted from the top) or one for an empty tableau pile
locations(game_state, ui_state) ==
    {CardLocation_of(Stock), CardLocation_of(Talon)}
        \cup {CardLocation_of(Foundation(i)) : i \in 0 .. (NUM_FOUNDATIONS - 1)}
        \cup UNION {{CardLocation_Tableau(p, n) :
                        n \in 0 .. Max(shown_len(game_state, ui_state, p) - 1, 0)} :
                    p \in 0 .. (NUM_TABLEAU - 1)}

\* the durations a tick may carry, in milliseconds
TickDts == {50, 100, 3000}

\* the digit keys; a key press reaches the state machine as Goto(c as u8)
DigitKeys == 1 .. 9

\* '1'..'9' as u8
char_as_u8(digit) == 48 + digit

\* the main loop (solitaire-tui main.rs) draws the frame, then takes one
\* message; it ends with a panic, and the explored run ends after MaxUISteps
\* changes of the game by the player (the animations always run to their end)
ui_runs(event) ==
    /\ last.op = "render"
    /\ ui.st # "Panic"
    /\ \/ steps < MaxUISteps
       \/ event.ev = "Tick" /\ ui.st = "AutoMoving"

\* RenderState::new indexes the piles by the UIState: a selection or a pending
\* move of more cards than the pile holds is out of range
render_panics(game_state, ui_state) ==
    LET len(p) == IF get_stack(game_state, p) = None THEN 0
                  ELSE Len(get_stack(game_state, p)[1])
    IN  CASE ui_state.st = "Selecting" ->
                selected_take_n(ui_state.sel) > len(selected_src(ui_state.sel))
          [] ui_state.st = "Moving" ->
                ui_state.dst # ui_state.src /\ ui_state.take_n > len(ui_state.src)
          [] OTHER -> FALSE

\* terminal.draw(|f| app.render(f, f.area())): the render state is a function
\* of the game state and the UIState
render ==
    /\ last.op # "render"
    /\ ui.st # "Panic"
    /\ last' = [op |-> "render"]
    /\ ui' = IF render_panics(game, ui) THEN Panic ELSE ui
    /\ UNCHANGED <<deck, game, steps>>

\* GameComponent::handle_event: self.ui_state = self.ui_state.on(event, state)
handle_event(event) ==
    /\ ui_runs(event)
    /\ \E out \in {UIState_on(ui, event, game)} :
           /\ ui' = out.ui
           /\ game' = out.game
           /\ last' = [op |-> "on", event |-> event, pre |-> game, ui |-> ui,
                       call |-> out.call]
           /\ steps' = IF game.kind = "Playing" /\ out.game # game
                            /\ ui.st # "AutoMoving"
                       THEN steps + 1 ELSE steps
    /\ UNCHANGED deck

\* GameComponent::handle_reset (KeyPress('r' | 'R')): a fresh shuffled deck;
\* it counts as a change of the game by the player
handle_reset ==
    /\ last.op = "render"
    /\ ui.st # "Panic"
    /\ steps < MaxUISteps
    /\ deck' \in Decks
    /\ game' = InitialGameState(deck')
    /\ ui' = Dealing(DealingState_new)
    /\ last' = [op |-> "reset", pre |-> game, ui |-> ui]
    /\ steps' = steps + 1

\* GameComponent::handle_tick
handle_tick(dt) == handle_event(Tick(dt))

\* GameComponent::handle_direction
handle_direction(dir, shift) == handle_event(Direction(dir, shift))

\* KeyPress(Enter | ' ')
KeyInteract == handle_event(Interact)

\* KeyPress('1'..'9')
KeyDigit(digit) == handle_event(Goto(char_as_u8(digit)))

\* KeyPress('c' | 'C')
KeyCancel == handle_event(Cancel)

\* GameComponent::handle_click: the location under the mouse, if any
handle_click(card_location) == handle_event(Click(card_location))

NextUI ==
    \/ render
    \/ \E dt \in TickDts : handle_tick(dt)
    \/ \E dir \in Directions, shift \in BOOLEAN : handle_direction(dir, shift)
    \/ KeyInteract
    \/ \E digit \in DigitKeys : KeyDigit(digit)
    \/ KeyCancel
    \/ handle_reset
    \/ handle_click(None)
    \/ ui.st # "Panic" /\ \E loc \in locations(game, ui) : handle_click(Some(loc))

SpecUI == Init /\ [][NextUI]_vars

\* the end of a game: the player's last move has left up to MaxOut top cards
\* of the suits on the tableau, all of them safe, and has started the
\* animation with one of these prior piles
prior_piles == {Stock, Talon, Foundation(0), Tableau(0), Tableau(6)}

InitUIEnd ==
    /\ deck = new_deck
    /\ \E outs \in [1 .. FrenchSuit_N -> 0 .. MaxOut] :
            /\ outs[1] + outs[2] + outs[3] + outs[4] \in 1 .. MaxOut
            /\ game = end_game(outs)
    /\ \E p \in prior_piles : ui = AutoMoving(AutoMovingState_new(p))
    /\ last = Call("new", NoPile, 0, NoPile, game, Ok(game))
    /\ steps = 0

SpecUIEnd == InitUIEnd /\ [][NextUI]_vars

\* a game from its deal or from its endgame
InitAnim == Init \/ InitUIEnd

\* the timer's message during the animation
animate == ui.st = "AutoMoving" /\ \E dt \in TickDts : handle_tick(dt)

\* the main loop of a player who plays one game and leaves the animation
\* alone: no reset, and while the UI is AutoMoving the only messages are the
\* timer's ticks
NextAnim ==
    \/ render
    \/ animate
    \/ ui.st # "AutoMoving" /\ \E dt \in TickDts : handle_tick(dt)
    \/ ui.st # "AutoMoving"
          /\ \E dir \in Directions, shift \in BOOLEAN : handle_direction(dir, shift)
    \/ ui.st # "AutoMoving" /\ KeyInteract
    \/ ui.st # "AutoMoving" /\ \E digit \in DigitKeys : KeyDigit(digit)
    \/ ui.st # "AutoMoving" /\ KeyCancel
    \/ ui.st # "AutoMoving" /\ handle_click(None)
    \/ ui.st \notin {"AutoMoving", "Panic"}
          /\ \E loc \in locations(game, ui) : handle_click(Some(loc))

\* a step that records a Tick handled during the animation: an animate step
ticked ==
    /\ ui.st = "AutoMoving"
    /\ last.op = "render"
    /\ last' \in {[op |-> "on", event |-> Tick(dt), pre |-> game, ui |-> ui,
                    call |-> call] :
                        dt \in TickDts, call \in {"none", "ok", "err"}}

\* a step that records the drawing of the screen: a render step
drawn ==
    /\ last.op # "render"
    /\ ui.st # "Panic"
    /\ last' = [op |-> "render"]

\* the loop draws after every message, and the timer keeps sending ticks
SpecAnim == InitAnim /\ [][NextAnim]_vars /\ WF_last(drawn) /\ WF_last(ticked)

----------------------------------------------------------------------------
(* Claims about the interaction layer's handling of engine errors *)

\* the event just handled made a rules-engine call that returned an error
engine_error == last.op = "on" /\ last.call = "err"

\* C14: whenever an event handled by the interaction layer triggers a
\* rules-engine call that returns an error, the game state held after the
\* event is identical to the game state before it.
C14_StateUnchangedOnError == engine_error => game = last.pre

\* a placement (Moving, Interact) that the engine refused
C14_Witness ==
    /\ engine_error
    /\ last.ui.st = "Moving"
    /\ last.event.ev = "Interact"
    /\ game = last.pre

pointed_pile(ui_state) ==
    CASE ui_state.st = "Hovering" -> ui_state.pile
      [] ui_state.st = "Selecting" -> selected_src(ui_state.sel)
      [] OTHER -> NoPile

\* the clicked location lies deeper than the pile it names holds cards
beyond_pile(game_state, card_location) ==
    /\ card_location.pile_ref.kind = "Tableau"
    /\ get_stack(game_state, card_location.pile_ref)[1] # <<>>
    /\ card_location.n_from_bottom[1] + 1
            > Len(get_stack(game_state, card_location.pile_ref)[1])

----------------------------------------------------------------------------
(* Claims about auto_move_card *)

\* the destinations as the specification lists them: every Foundation (only
\* when take_n = 1), then every Tableau pile other than src
listed_dsts(src, take_n) ==
    (IF take_n = 1
     THEN <<Foundation(0), Foundation(1), Foundation(2), Foundation(3)>>
     ELSE <<>>)
    \o SelectSeq(<<Tableau(0), Tableau(1), Tableau(2), Tableau(3), Tableau(4),
                   Tableau(5), Tableau(6)>>,
                 LAMBDA dst : dst # src)

\* what move_cards returns for the i-th listed destination of the last call
attempt(i) ==
    move_cards(last.pre, last.src, last.n, listed_dsts(last.src, last.n)[i])

\* the last call returned r
returned(r) ==
    /\ last.res = [ok |-> r.ok, kind |-> r.kind, field |-> r.field,
                   reason |-> r.reason]
    /\ game = r.state

\* the least element of a non-empty set of numbers
least(S) == CHOOSE i \in S : \A j \in S : i <= j

\* C16 as stated: auto_move_card with src not a Foundation returns the result
\* of move_cards for the first listed destination for which move_cards
\* succeeds, and Playing with the state unchanged when none succeeds.
C16_FirstSuccess ==
    last.op = "auto_move_card" /\ last.src.kind # "Foundation" =>
        LET succeed == {i \in 1 .. Len(listed_dsts(last.src, last.n)) :
                            attempt(i).ok}
        IN  IF succeed = {} THEN returned(Ok(last.pre))
            ELSE returned(attempt(least(succeed)))

\* C16, as the code has it: auto_move_card with src not a Foundation returns
\* the result of move_cards for the first listed destination for which
\* move_cards succeeds or reports InvalidInput, and Playing with the state
\* unchanged when every destination reports InvalidMove.
C16_FirstSuccessOrInvalidInput ==
    last.op = "auto_move_card" /\ last.src.kind # "Foundation" =>
        LET decide == {i \in 1 .. Len(listed_dsts(last.src, last.n)) :
                            attempt(i).ok \/ attempt(i).kind = "InvalidInput"}
        IN  IF decide = {} THEN returned(Ok(last.pre))
            ELSE returned(attempt(least(decide)))

\* a card went to the first destination that takes it, after a refusal
C16_Witness ==
    /\ last.op = "auto_move_card"
    /\ last.src.kind # "Foundation"
    /\ last.res.ok
    /\ game # last.pre
    /\ \E i \in 2 .. Len(listed_dsts(last.src, last.n)) :
            /\ attempt(i).ok
            /\ game = attempt(i).state
            /\ \A j \in 1 .. (i - 1) : attempt(j).kind = "InvalidMove"

\* C17: auto_move_card returns an error only when a move_cards attempt reports
\* InvalidInput, and then that error, the attempts before it having reported
\* InvalidMove; it never returns InvalidMove; and for src a Foundation it
\* returns Playing with the state unchanged for every take_n.
C17_AutoMoveErrors ==
    last.op = "auto_move_card" =>
        /\ last.res.kind # "InvalidMove"
        /\ ~last.res.ok =>
                /\ last.src.kind # "Foundation"
                /\ \E i \in 1 .. Len(listed_dsts(last.src, last.n)) :
                        /\ attempt(i).kind = "InvalidInput"
                        /\ returned(attempt(i))
                        /\ \A j \in 1 .. (i - 1) : attempt(j).kind = "InvalidMove"
        /\ last.src.kind # "Foundation" =>
                \A i \in 1 .. Len(listed_dsts(last.src, last.n)) :
                    /\ attempt(i).kind = "InvalidInput"
                    /\ \A j \in 1 .. (i - 1) : attempt(j).kind = "InvalidMove"
                    => returned(attempt(i))
        /\ last.src.kind = "Foundation" => returned(Ok(last.pre))

\* a malformed request from a tableau pile came back as InvalidInput
C17_Witness ==
    /\ last.op = "auto_move_card"
    /\ last.src.kind = "Tableau"
    /\ ~last.res.ok
    /\ last.res.kind = "InvalidInput"
    /\ game = last.pre

----------------------------------------------------------------------------
(* is_safe_to_move_to_foundation on its own: a card and four foundations as *)
(* play can build them, each a run of one suit from its Ace, the card not   *)
(* on any of them.                                                          *)

\* which suit (by number) lies on each foundation
suit_orders == {<<0, 1, 2, 3>>, <<3, 2, 1, 0>>, <<2, 0, 3, 1>>}

\* the foundations on which suit s has heights[s + 1] cards
built(order, heights) ==
    [f \in 1 .. NUM_FOUNDATIONS |->
        home_pile(order[f], Rank_N - heights[order[f] + 1])]

InitSafe ==
    /\ deck = new_deck
    /\ game = InitialGameState(deck)
    /\ last = Call("new", NoPile, 0, NoPile, <<>>, Ok(game))
    /\ steps = 0
    /\ ui = Dealing(DealingState_new)

\* is_safe_to_move_to_foundation(card_to_move, foundations); the card and the
\* foundations are recorded as the input of the call
IsSafeToMoveToFoundation(card_to_move, foundations) ==
    /\ last' = [op |-> "is_safe_to_move_to_foundation", src |-> NoPile, n |-> 0,
                dst |-> NoPile,
                pre |-> [card |-> card_to_move, foundations |-> foundations],
                res |-> [ok |-> is_safe_to_move_to_foundation(card_to_move,
                                                              foundations),
                         kind |-> "", field |-> "", reason |-> ""]]
    /\ UNCHANGED <<deck, game, steps, ui>>

\* one call per card and foundations
NextSafe ==
    /\ last.op = "new"
    /\ \E order \in suit_orders,
          heights \in [1 .. FrenchSuit_N -> 0 .. MaxTop],
          s \in 0 .. (FrenchSuit_N - 1),
          k \in 1 .. (MaxTop + 2) :
            /\ k > heights[s + 1]
            /\ IsSafeToMoveToFoundation(set_face(card_of(s, Rank_N - k), TRUE),
                                        built(order, heights))

SpecSafe == InitSafe /\ [][NextSafe]_vars

----------------------------------------------------------------------------
(* Claims about is_safe_to_move_to_foundation *)

\* is_safe_to_move_to_foundation has just been called
safety_asked == last.op = "is_safe_to_move_to_foundation"

\* some foundation of fs is topped by a card of suit s that counts k pips
topped_by(fs, s, k) ==
    \E f \in 1 .. NUM_FOUNDATIONS :
        /\ fs[f] # <<>>
        /\ suit(fs[f][Len(fs[f])]) = s
        /\ pips(fs[f][Len(fs[f])]) = k

\* some foundation of fs is topped by a card of suit s of at least k pips
reached(fs, s, k) == \E j \in k .. Rank_N : topped_by(fs, s, j)

suit_not_begun(fs, s) ==
    \A f \in 1 .. NUM_FOUNDATIONS :
        \A i \in 1 .. Len(fs[f]) : suit(fs[f][i]) # s

\* C19 as stated: a Two is safe once no foundation holds any card of its suit.
C19_TwoSafeOnEmpty ==
    /\ safety_asked
    /\ pips(last.pre.card) = 2
    /\ suit_not_begun(last.pre.foundations, suit(last.pre.card))
    => last.res.ok

\* C19, as the code has it: a Two is safe exactly when a foundation is topped
\* by the Ace of its suit; while no foundation holds any card of its suit it
\* is not safe.
C19_TwoSafeOnItsAce ==
    safety_asked /\ pips(last.pre.card) = 2 =>
        /\ last.res.ok <=>
                topped_by(last.pre.foundations, suit(last.pre.card), 1)
        /\ suit_not_begun(last.pre.foundations, suit(last.pre.card))
                => ~last.res.ok

\* a Two whose suit has no card on any foundation was found unsafe
C19_Witness ==
    /\ safety_asked
    /\ pips(last.pre.card) = 2
    /\ suit_not_begun(last.pre.foundations, suit(last.pre.card))
    /\ ~last.res.ok

----------------------------------------------------------------------------
(* Claims about auto_move_to_foundation *)

\* the piles as the specification lists them: Talon, then Tableau 0..6
listed_piles ==
    <<Talon, Tableau(0), Tableau(1), Tableau(2), Tableau(3), Tableau(4),
      Tableau(5), Tableau(6)>>

\* the i-th listed pile of state is not empty and its top card is safe
safe_top(state, i) ==
    LET stack == get_stack(state, listed_piles[i])[1]
    IN  /\ stack # <<>>
        /\ is_safe_to_move_to_foundation(stack[Len(stack)], state.foundations)

\* C20: auto_move_to_foundation returns the result of auto_move_card(state,
\* pile, 1) for the first pile, of Talon and then Tableau 0..6, that is not
\* empty and whose top card is safe, and Playing with the state unchanged if
\* there is no such pile.
C20_AutoMoveToFoundation ==
    last.op = "auto_move_to_foundation" =>
        LET safe == {i \in 1 .. Len(listed_piles) : safe_top(last.pre, i)}
        IN  IF safe = {} THEN returned(Ok(last.pre))
            ELSE returned(auto_move_card(last.pre, listed_piles[least(safe)], 1))

\* the top card of a tableau pile went to a foundation, past piles that are
\* not empty and not safe, and before another pile whose top card is safe
C20_Witness ==
    /\ last.op = "auto_move_to_foundation"
    /\ game # last.pre
    /\ \E i \in 2 .. Len(listed_piles), j \in 2 .. Len(listed_piles) :
            /\ i < j
            /\ safe_top(last.pre, i)
            /\ safe_top(last.pre, j)
            /\ \A k \in 1 .. (i - 1) : ~safe_top(last.pre, k)
            /\ get_stack(game, listed_piles[i])
                    # get_stack(last.pre, listed_piles[i])
            /\ get_stack(game, listed_piles[j])
                    = get_stack(last.pre, listed_piles[j])

-----------------------------------------------------------------------------
(* Claims about the interaction state machine (ui_state.rs) *)

\* the event just handled found the UI in state st
handled(st) == last.op = "on" /\ last.ui.st = st

RECURSIVE deal_times(_, _)
\* deal_one invoked k times on a Dealing state
deal_times(state, k) ==
    IF k = 0 \/ state.kind # "Initial" THEN state
    ELSE deal_times(deal_one(state), k - 1)

\* the cards of the deal still in the stock
to_deal(state) == DEAL_N - (Card_N - Len(state.stock))

\* where the UI goes once the deal is complete
post_deal(state) ==
    IF auto_move_to_foundation(state).state # state
    THEN AutoMoving(AutoMovingState_new(Stock))
    ELSE Hovering(Stock)

\* C21: a new game (and a reset) starts in UI state Dealing with a Dealing
\* game state; a Tick invokes deal_one once per elapsed 100 ms of accumulated
\* time; the UI is in Dealing exactly while fewer than 28 cards are dealt;
\* Interact and Click apply deal_all; when the deal completes the game is
\* Playing and the UI is AutoMoving if auto_move_to_foundation would change
\* the state and Hovering(Stock) otherwise.
C21_DealingPhase ==
    /\ last.op \in {"new", "reset"} =>
            /\ ui = Dealing(DealingState_new)
            /\ game.kind = "Initial"
            /\ to_deal(game) = DEAL_N
    /\ ui.st = "Dealing" <=> game.kind = "Initial"
    /\ handled("Dealing") /\ last.event.ev = "Tick" =>
            LET elapsed == last.ui.since_last_deal + last.event.dt
                k == elapsed \div DEAL_INTERVAL
            IN  IF k < to_deal(last.pre)
                THEN /\ game = deal_times(last.pre, k)
                     /\ ui = Dealing([since_last_deal |-> elapsed % DEAL_INTERVAL])
                ELSE /\ game = deal_times(last.pre, to_deal(last.pre))
                     /\ game.kind = "Playing"
                     /\ ui = post_deal(game)
    /\ handled("Dealing") /\ last.event.ev \in {"Interact", "Click"} =>
            /\ game = deal_all(last.pre)
            /\ game.kind = "Playing"
            /\ ui = post_deal(game)
    /\ handled("Dealing") /\ last.event.ev \in {"Direction", "Goto", "Cancel"} =>
            /\ game = last.pre
            /\ ui = last.ui

\* a Tick that deals several cards, the 28th among them, and finds a card to
\* move to a foundation
C21_Witness ==
    /\ handled("Dealing")
    /\ last.event.ev = "Tick"
    /\ to_deal(last.pre) \in 2 .. DEAL_N - 1
    /\ game.kind = "Playing"
    /\ ui = AutoMoving(AutoMovingState_new(Stock))

\* C22: while the UI is AutoMoving, every event other than Tick (Direction
\* with or without Shift, Interact, Goto, Cancel, Click) leaves the UI state
\* (timer, interval, prior pile) and the game state exactly unchanged.
C22_InputLockOut ==
    handled("AutoMoving") /\ last.event.ev # "Tick" =>
        /\ ui = last.ui
        /\ game = last.pre

\* a Cancel in the middle of the animation, after a tick has advanced the timer
C22_Witness ==
    /\ handled("AutoMoving")
    /\ last.event.ev = "Cancel"
    /\ last.ui.since_last_move > INITIAL_MOVE_INTERVAL - INITIAL_DELAY
    /\ ui = last.ui
    /\ game = last.pre

\* C23: in Moving{src, take_n, dst}, a Cancel event aborts the pending move:
\* the next UI state is Hovering(src) and the game state is unchanged.
C23_CancelAbortsMove ==
    handled("Moving") /\ last.event.ev = "Cancel" =>
        /\ ui = Hovering(last.ui.src)
        /\ game = last.pre

\* a safe auto-move is available in state
auto_move_available(state) ==
    /\ state.kind = "Playing"
    /\ auto_move_to_foundation(state).state # state

\* C24: in Moving{src, take_n, dst} with a Playing game, Interact executes
\* move_cards(src, take_n, dst): on success the game state becomes the result
\* and the UI goes to AutoMoving (prior pile dst) if a safe auto-move is then
\* available and otherwise to Hovering(dst); on failure the game state is
\* unchanged and the UI goes to Hovering(src).
C24_MovingInteract ==
    handled("Moving") /\ last.event.ev = "Interact" /\ last.pre.kind = "Playing" =>
        LET r == move_cards(last.pre, last.ui.src, last.ui.take_n, last.ui.dst)
        IN  IF r.ok
            THEN /\ game = r.state
                 /\ ui = IF auto_move_available(game)
                         THEN AutoMoving(AutoMovingState_new(last.ui.dst))
                         ELSE Hovering(last.ui.dst)
            ELSE /\ game = last.pre
                 /\ ui = Hovering(last.ui.src)

\* a placement that changes the game and uncovers a card to auto-move
C24_Witness ==
    /\ handled("Moving")
    /\ last.event.ev = "Interact"
    /\ game # last.pre
    /\ ui = AutoMoving(AutoMovingState_new(last.ui.dst))

\* a Tick has ended the animation on its prior pile, with the game Won or
\* with no safe auto-move remaining
animation_over ==
    /\ handled("AutoMoving")
    /\ last.event.ev = "Tick"
    /\ ui = Hovering(last.ui.prev_pile_ref)
    /\ game.kind = "Win" \/ (game.kind = "Playing" /\ ~auto_move_available(game))

\* a Tick of the animation keeps its prior pile, and ends it only as above
animation_step ==
    handled("AutoMoving") /\ last.event.ev = "Tick" =>
        \/ ui.st = "AutoMoving" /\ ui.prev_pile_ref = last.ui.prev_pile_ref
        \/ animation_over

\* C25: from every reachable AutoMoving state, an unbroken sequence of Tick
\* events of positive duration eventually leads to Hovering(prior pile), with
\* the game state then either Won or Playing with no safe auto-move remaining.
C25_AutoMovingTerminates ==
    /\ []animation_step
    /\ (ui.st = "AutoMoving") ~> animation_over

\* the animation ends a game: the last tick leaves the game Won
C25_Witness ==
    /\ animation_over
    /\ last.pre.kind = "Playing"
    /\ game.kind = "Win"

\* the place of a game state in its lifecycle
lifecycle(state) ==
    CASE state.kind = "Initial" -> 0
      [] state.kind = "Playing" -> 1
      [] state.kind = "Win" -> 2

\* C26: without a reset the game state only ever progresses Dealing, then
\* Playing, then Won, never backwards; once it is Won, no event (Tick,
\* Direction, Interact, Goto, Cancel, Click) changes the game state.
C26_LifecycleMonotone ==
    last.op = "on" =>
        /\ lifecycle(game) >= lifecycle(last.pre)
        /\ last.pre.kind = "Win" => game = last.pre

\* an Interact on a foundation after the game is Won
C26_Witness ==
    /\ last.op = "on"
    /\ last.pre.kind = "Win"
    /\ last.ui = Hovering(Foundation(0))
    /\ last.event.ev = "Interact"
    /\ game = last.pre

\* C27: after the game is Won, in Hovering on any pile (the prior pile that
\* the animation restores included, be it Stock, Talon or a Tableau pile),
\* every event, Shift+Direction and Click on any pile location included, is
\* handled and returns a UI state without failing.
C27_TotalAfterWon ==
    handled("Hovering") /\ last.pre.kind = "Win" => ui.st # "Panic"

\* the Selecting state that corresponds to a pending move
selecting_of(moving) ==
    IF moving.src = Talon THEN SelectingState_Talon
    ELSE SelectingState_Tableau(moving.src.n, moving.take_n)

\* C28: in Moving{src, take_n, dst}, Click(location) gives the same next UI
\* state and game state as the same Click handled in the Selecting state that
\* corresponds to the pending move (Selecting(Talon) for src Talon,
\* Selecting(Tableau{src index, take_n}) with the Moving state's take_n for a
\* Tableau src), for every kind of clicked location and without failing.
C28_MovingClickDefers ==
    /\ handled("Moving")
    /\ last.event.ev = "Click"
    /\ last.event.loc # None
    /\ last.ui.src.kind \in {"Talon", "Tableau"}
    => /\ ui.st # "Panic"
       /\ ui = SelectingState_on(selecting_of(last.ui), last.event, last.pre).ui
       /\ game = SelectingState_on(selecting_of(last.ui), last.event, last.pre).game

\* C29: in every reachable Selecting(Tableau{pile_n, take_n}) state, however
\* the selection was entered (Shift+Up from Hovering or a Click), Direction
\* Down yields Selecting(Tableau{pile_n, take_n - 1}) when take_n - 1 >= 2 and
\* otherwise exits to Hovering(Tableau(pile_n)); take_n never reaches 0 and
\* never underflows.
C29_SelectingDown ==
    /\ ui.st = "Selecting" /\ ui.sel.kind = "Tableau" => ui.sel.take_n >= 1
    /\ /\ handled("Selecting")
       /\ last.ui.sel.kind = "Tableau"
       /\ last.event.ev = "Direction"
       /\ last.event.dir = "Down"
       => ui = IF last.ui.sel.take_n - 1 >= 2
               THEN Selecting(SelectingState_Tableau(last.ui.sel.pile_n,
                                                     last.ui.sel.take_n - 1))
               ELSE Hovering(Tableau(last.ui.sel.pile_n))

\* C30: in every reachable Moving{src, take_n, dst} state, dst is a
\* Foundation only if take_n = 1: no event sequence (Direction from Selecting
\* or Moving, Goto, Click) produces a Moving state that targets a Foundation
\* with take_n >= 2.
C30_FoundationTakesOne ==
    ui.st = "Moving" /\ ui.dst.kind = "Foundation" => ui.take_n = 1

-----------------------------------------------------------------------------
(* Claims about keys, clicks and selections *)

\* where digit key d sends the cursor from pile
goto_pile(d, pile) ==
    CASE d = 1 -> Stock
      [] d = 2 -> Talon
      [] d \in 3 .. 6 -> Foundation(d - 3)
      [] OTHER -> pile

\* C31: while Hovering, digit key 1 moves the cursor to Stock, key 2 to Talon
\* and keys 3..6 to Foundation 0..3 (any other digit leaves the cursor where
\* it is): the key press reaches the state machine as Goto(digit) carrying the
\* digit's numeric value, and the game state is unchanged.
C31_DigitKeys ==
    handled("Hovering") /\ last.event.ev = "Goto" =>
        /\ last.event.i \in DigitKeys
        /\ ui = Hovering(goto_pile(last.event.i, last.ui.pile))
        /\ game = last.pre

\* a Click on a card of the tableau pile that a Selecting state selects from,
\* at a depth other than the selected run's
click_in_selected_pile ==
    /\ handled("Selecting")
    /\ last.ui.sel.kind = "Tableau"
    /\ last.pre.kind = "Playing"
    /\ last.event.ev = "Click"
    /\ last.event.loc # None
    /\ last.event.loc[1].pile_ref = Tableau(last.ui.sel.pile_n)
    /\ last.event.loc[1].n_from_bottom[1] + 1 # last.ui.sel.take_n
    /\ last.event.loc[1].n_from_bottom[1] < Len(last.pre.tableau[last.ui.sel.pile_n + 1])

\* the run length a click on a tableau card selects: 1 on a face-down card
clicked_run(pile, n_from_bottom) ==
    IF face_up(pile[Len(pile) - n_from_bottom]) THEN n_from_bottom + 1 ELSE 1

\* C32: in Selecting(Tableau{p, k}) with a Playing game, a click on a card of
\* the same pile p whose depth gives a run length d # k re-derives the
\* selection from the click: the next UI state is Selecting(Tableau{p, d}) (or
\* take_n = 1 when the clicked card is face-down) and the game is unchanged.
C32_ClickReselects ==
    click_in_selected_pile =>
        /\ game = last.pre
        /\ ui = Selecting(SelectingState_Tableau(
                    last.ui.sel.pile_n,
                    clicked_run(last.pre.tableau[last.ui.sel.pile_n + 1],
                                last.event.loc[1].n_from_bottom[1])))

selected_pile == game.tableau[ui.sel.pile_n + 1]

\* C33: in every reachable Selecting(Tableau{pile_n, take_n}) state, take_n is
\* at least 1, does not exceed the length of tableau pile pile_n, and the top
\* take_n cards of that pile are all face-up.
C33_SelectionBounds ==
    ui.st = "Selecting" /\ ui.sel.kind = "Tableau" =>
        /\ game.kind = "Playing"
        /\ ui.sel.take_n >= 1
        /\ ui.sel.take_n <= Len(selected_pile)
        /\ \A i \in 1 .. ui.sel.take_n :
               face_up(selected_pile[Len(selected_pile) + 1 - i])

----------------------------------------------------------------------------
(* Claims about the deal, the safe moves and the shape of the piles *)

\* d, the number of cards dealt before the deal_one call recorded in last
cards_dealt == Card_N - Len(last.pre.stock)

\* the pile that call dealt into, and the card it put there
dealt_pile ==
    CHOOSE i \in 0 .. NUM_TABLEAU - 1 :
        Len(game.tableau[i + 1]) = Len(last.pre.tableau[i + 1]) + 1

dealt_top == game.tableau[dealt_pile + 1][Len(game.tableau[dealt_pile + 1])]

\* the call opened round r: piles r .. 6 held r cards each, and pile r got one
begins_round(r) ==
    /\ dealt_pile = r
    /\ \A i \in r .. NUM_TABLEAU - 1 : Len(last.pre.tableau[i + 1]) = r

\* the cards dealt before round r: the deal less the triangle of the rounds
\* r .. 6, which deal 7 - r, 6 - r, ..., 1 cards
round_start(r) ==
    DEAL_N - (((NUM_TABLEAU - r) * ((NUM_TABLEAU - r) + 1)) \div 2)

round_at(d) ==
    CHOOSE r \in 0 .. NUM_TABLEAU - 1 : round_start(r) <= d /\ d < round_start(r + 1)

\* C34: in deal_one, with d the number of cards already dealt, round r (the
\* round that deals into piles r..6) begins exactly at d = r(r+1)/2.
C34_RoundStartsAsStated ==
    last.op = "deal_one" =>
        \A r \in 0 .. NUM_TABLEAU - 1 :
            begins_round(r) <=> cards_dealt = (r * (r + 1)) \div 2

\* C34 (amended): round r begins exactly at d = 28 - (7-r)(8-r)/2, and the
\* target pile and the face-up flag are a function of d alone: the card goes
\* to pile r + (d - start of round r) and is face-up iff it opens the round.
C34_RoundStarts ==
    last.op = "deal_one" =>
        /\ \A r \in 0 .. NUM_TABLEAU - 1 :
               begins_round(r) <=> cards_dealt = round_start(r)
        /\ dealt_pile = round_at(cards_dealt)
                            + (cards_dealt - round_start(round_at(cards_dealt)))
        /\ face_up(dealt_top) <=> cards_dealt = round_start(round_at(cards_dealt))

C34_Witness ==
    /\ last.op = "deal_one"
    /\ cards_dealt = 13
    /\ begins_round(2)
    /\ face_up(dealt_top)

\* the listed piles of the state auto_move_to_foundation was given whose top
\* card is safe
safe_piles == {i \in 1 .. Len(listed_piles) : safe_top(last.pre, i)}

\* pile after holds what pile before held, faces aside, less its top card
lost_its_top(before, after) ==
    /\ Len(after) = Len(before) - 1
    /\ \A i \in 1 .. Len(after) : ident(after[i]) = ident(before[i])

\* the game after the call is the game before it with the top card of src on
\* a foundation, and every other pile as it was
moved_to_a_foundation(src) ==
    LET stack == get_stack(last.pre, src)[1]
    IN  /\ \E f \in 1 .. NUM_FOUNDATIONS :
               game.foundations =
                   [last.pre.foundations EXCEPT ![f] = Append(@, stack[Len(stack)])]
        /\ game.kind = "Playing" =>
               /\ game.stock = last.pre.stock
               /\ IF src = Talon THEN lost_its_top(last.pre.talon, game.talon)
                  ELSE game.talon = last.pre.talon
               /\ \A n \in 0 .. NUM_TABLEAU - 1 :
                      IF src = Tableau(n)
                      THEN lost_its_top(last.pre.tableau[n + 1], game.tableau[n + 1])
                      ELSE game.tableau[n + 1] = last.pre.tableau[n + 1]

C36_SafeCardsDrained ==
    /\ last.op = "render"
    /\ game.kind = "Playing"
    /\ ui.st \in {"Hovering", "Selecting", "Moving"}
    => auto_move_to_foundation(game).state = game

\* the animation has moved its last card and handed a game still in play back
\* to the player
C36_Witness ==
    /\ last.op = "on"
    /\ last.ui.st = "AutoMoving"
    /\ ui.st = "Hovering"
    /\ game.kind = "Playing"
    /\ game # last.pre

\* the face-down cards of pile lie below its face-up cards
faces_in_order(pile) ==
    \A i \in 1 .. Len(pile), j \in 1 .. Len(pile) :
        i < j /\ face_up(pile[i]) => face_up(pile[j])

\* neighbouring face-up cards of pile alternate in colour and descend by one
builds_down(pile) ==
    \A i \in 1 .. Len(pile) - 1 :
        face_up(pile[i]) /\ face_up(pile[i + 1]) =>
            /\ color(suit(pile[i])) # color(suit(pile[i + 1]))
            /\ pips(pile[i]) = pips(pile[i + 1]) + 1

built_up(pile) ==
    \A i \in 1 .. Len(pile) :
        /\ face_up(pile[i])
        /\ pips(pile[i]) = i
        /\ suit(pile[i]) = suit(pile[1])

foundations_of(state) ==
    IF state.kind = "Initial" THEN EmptyPiles(NUM_FOUNDATIONS) ELSE state.foundations

\* pile after begins with the cards of pile before
still_holds(before, after) ==
    /\ Len(after) >= Len(before)
    /\ SubSeq(after, 1, Len(before)) = before

\* C39: through the interaction layer the foundations only grow: no event
\* (resets aside) removes a card from a foundation, so the total number of
\* cards on the foundations never decreases.
C39_FoundationsGrow ==
    last.op = "on" =>
        \A f \in 1 .. NUM_FOUNDATIONS :
            still_holds(foundations_of(last.pre)[f], foundations_of(game)[f])

\* Interact while hovering a foundation that holds a card
C39_Witness ==
    /\ handled("Hovering")
    /\ last.event.ev = "Interact"
    /\ last.ui.pile.kind = "Foundation"
    /\ last.pre.kind = "Playing"
    /\ last.pre.foundations[last.ui.pile.n + 1] # <<>>
    /\ game = last.pre

\* C40: whenever the UI is in Selecting(Talon), the talon is non-empty, so
\* that the selection always denotes an existing card, whichever way
\* Selecting(Talon) was entered.
C40_TalonSelectionExists ==
    ui.st = "Selecting" /\ ui.sel.kind = "Talon" =>
        game.kind = "Playing" /\ game.talon # <<>>

====
